---- MODULE Spec2Model ----
(***************************************************************************)
(* Model of the load-balancing core of RMS-Gate: one pool                  *)
(* (LoadBalancedServerInfo) over a vector of Backend objects, player Dials *)
(* and tracked-connection Closes running concurrently with the single      *)
(* health-check loop of the LoadBalancer and with the admin                *)
(* Disable/Enable commands.  A step is one access to state that another    *)
(* goroutine accesses too (an atomic.Int32 / atomic.Bool operation, one    *)
(* critical section of playersMu), together with the accesses around it    *)
(* to values that only the stepping goroutine writes; goroutines           *)
(* interleave between steps.  The SQLite HistoryManager with its write     *)
(* goroutines, Shutdown, the panic and restart of the health-check loop    *)
(* and Backend.Stats have specifications of their own, and so have the     *)
(* subsystems beside the load balancer: the auto-shutdown timers and the   *)
(* single-flight start of dynamicserver.Manager (SpecShutdown, SpecStart), *)
(* permission.Manager (SpecPermission), the status ping of the minecraft   *)
(* package (SpecPing) and the JSON-file HistoryManager (SpecJson).         *)
(***************************************************************************)
EXTENDS Integers, FiniteSets, Sequences, TLC

(* ---------------------------------------------------------------- bounds *)
NumBackends == 2
NumConns == 2
NumNames == 2
MaxCloseCalls == 2
NumHealthConns == 1
NumHealthBackends == 1
MaxCount == 3
\* successCount is counted up to MaxSuccessCount: the successes that take
\* trust from ResetTrust to 100
MaxSuccessCount == 5
\* dynamicserver.Manager: the clock runs to MaxTime seconds, timers are
\* created MaxTimers times, Config.IdleShutdownSeconds, and the delay
\* given to SetShutdownDelay
\* Manager.EnsureServerRunning: NumCallers goroutines call it, and
\* MaxStarts startingServer objects are made
NumCallers == 3
\* permission.Manager: NumPermCalls CanExecute calls run at a time for
\* NumUsers user names
NumPermCalls == 2
NumUsers == 1
MaxStarts == 2
MaxTime == 2
MaxTimers == 2
IdleShutdownSeconds == 1
DelaySeconds == 2
UnhealthyAfterFailures == 2
\* permission.LevelAdmin
LevelAdmin == 3
\* readPacket, line 435: 1024*1024
MaxPacketLength == 1048576
\* the JSON-file HistoryManager: Record is called for NumJsonAddrs
\* addresses, MaxJsonRecords times each
NumJsonAddrs == 2
MaxJsonRecords == 3
HealthyAfterSuccesses == 2
\* HealthCheck.WindowSize of the pools of Spec and SpecHealth
WindowSize == 1
\* the time, in ms, that every connect and every ping of a run takes
MeasuredLatency == 40
\* float64 values are kept as integers in units of 1/Scale, every division
\* rounded down
Scale == 100
\* PeriodStats.Samples is counted up to MaxSamples
MaxSamples == 20
\* round-robin: the counter values a pool may start a run with
MaxInitCounter == 2
\* SpecWindow: capacities and number of recordings
MaxWindowSize == 3
MaxRecordings == 5
\* SpecSelect, SpecScore: the players a backend may have when a run starts
MaxInitConns == 1
\* SpecHistory: the Record calls of a run
MaxRecords == 2

\* history.go: minSamplesForUse
minSamplesForUse == 20
\* Backend.Trend: fewer samples give no trend
minTrendSamples == 8

Backends == 1..NumBackends
Conns == 1..NumConns
\* player names; 0 stands for the empty name "" used when player == nil
Names == 0..(NumNames - 1)

\* Backend.MaxConnections of the configured pool: the first backend is
\* capped at one player, the others are unbounded (0)
MaxConnections == [b \in Backends |-> IF b = 1 THEN 1 ELSE 0]

\* the values MaxConnections takes in the pools of SpecSelect and SpecScore
Caps == {0, 1, 3}

\* latency samples, in ms (a ping below one millisecond records 0)
Latencies == {0, 40, 41}

\* the strategies a pool is configured with here; the random strategy may
\* return any available backend, which covers every backend the round-robin
\* and health-score strategies can return from the same state
Strategies == {"sequential", "least-connections", "random"}

\* GetStrategy: the five strategies
AllStrategies == Strategies \cup {"round-robin", "health-score"}

VARIABLES
    \* Backend fields
    currentConns, failCount, successCount, healthy, disabled, trustCoeff,
    players, latencyWindow, lastCheckTime,
    \* LoadBalancedServerInfo.backends and .strategy, with the backends'
    \* MaxConnections and windowSize
    backends, strategy, maxConnections, windowSize,
    \* RoundRobinStrategy.counter
    counter,
    \* HistoryManager.backends, the statistics of the current period
    history,
    \* one Dial call / trackedConn per slot; connAvail and connCounter are
    \* the locals `available` and counter.Add(1) of a round-robin Select
    connPc, connBackend, connName, connAvail, connCounter,
    \* trackedConn.closeOnce, the goroutine inside closeOnce.Do, its local
    \* `exists`, and the number of Close calls made on the connection
    closeOnce, closePc, closeExists, closeCalls,
    \* health-check goroutine: position, backend index, local wasUnhealthy
    hcPc, hcIdx, wasUnhealthy,
    \* history variables (observers, not program state); recorded holds the
    \* samples passed to RecordLatency, or the <<latency, jitter>> pairs
    \* passed to HistoryManager.Record, for each backend
    probeFails, probeSuccs, decs, removals, recorded,
    \* Attach/Detach sequence driver
    seqPc, seqName, seqBefore,
    \* HistoryManager (SQLite store): cache, the rows of table period_stats,
    \* whether db.Close() has run, the savePeriodStats goroutines started,
    \* the local time, and the last HistoricalScore call with its result
    cache, db, dbClosed, saves, now, histScore,
    \* LoadBalancer: stopCh closed, ctx cancelled, the position of Shutdown,
    \* the number of goroutines inside the for loop of healthCheckLoop, and
    \* whether a panic of the loop has been recovered
    stopCh, cancelled, shutdownPc, hcLoops, hcRecovered,
    \* a Backend.Stats() call on the first backend: the number of fields
    \* read so far (0: no call yet), the BackendStats being built, and the
    \* states the backend has been in during the call (an observer)
    statsPc, statsResult, statsSeen,
    \* an admin running DisableBackend; EnableBackend on one address: its
    \* position, the address, the availability and the disabled flag found
    \* before, and the value the last command returned
    adminPc, adminTarget, adminBefore, adminResult,
    \* HealthScoreStrategy.Select of a Dial: minLatency and minJitter after
    \* its first loop; the score /lb status has shown last, with the address
    connMin, shown,
    \* observers of the current tick of the health check: how often each
    \* backend's MCPing has been called, and how often it has been skipped
    pings, skips,
    \* dynamicserver.Manager, for one auto-start server: the clock,
    \* serverConfigs[server], the timers made by time.AfterFunc with the
    \* position of their callbacks, shutdownTimers[server] (0: no entry),
    \* the players on the server, the goroutine of periodicIdleCheck with
    \* its local `timer`, the admin call in progress and its argument
    mgrNow, mgrCfg, mgrTimers, mgrMap, mgrPlayers, idlePc, idleTimer,
    mgrPc, mgrArg,
    \* observers: stop commands sent, SetAutoShutdownEnabled(false) has
    \* returned and no later call has started, the same of SetShutdownDelay
    stops, offReturned, delayReturned,
    \* Manager.EnsureServerRunning for one server: the startingServer
    \* objects made so far (done closed, result), startingServers[server]
    \* (0: no entry), and for each caller its position, its local `s` and
    \* the value it has returned
    starts, startMap, callPc, callEntry, callResult,
    \* permission.Manager: cache, whether time.Now() is after cacheExpiry,
    \* and for each CanExecute call its position, its arguments, the locals
    \* `level` and `exists` of GetPermissionLevel, the value it returned;
    \* observers: the fetches the call has made and whether one failed
    permCache, permExpired, permPc, permUser, permCmd, permLevel, permExists,
    permAllowed, permFetches, permFailed,
    \* minecraft.MCPingConn: the connection of the last call (which write
    \* fails, and the bytes the server sends), whether a call has returned,
    \* and whether it returned nil
    pingInput, pingDone, pingOk,
    \* the JSON-file HistoryManager: for each address the samples recorded in
    \* hm.backends, hm.dirty, the same count for the content of the file,
    \* the position of the auto-save goroutine in Save, its local `data`,
    \* and whether stopCh is closed
    jsonBackends, jsonDirty, jsonFile, savePc, saveData, saveStop

backendVars == <<currentConns, failCount, successCount, healthy, disabled,
                 trustCoeff, players, latencyWindow, lastCheckTime>>
connVars == <<connPc, connBackend, connName, connAvail, connCounter>>
closeVars == <<closeOnce, closePc, closeExists, closeCalls>>
hcVars == <<hcPc, hcIdx, wasUnhealthy>>
tickVars == <<pings, skips>>
ghostVars == <<probeFails, probeSuccs, decs, removals, tickVars>>
seqVars == <<seqPc, seqName, seqBefore>>
poolVars == <<backends, strategy, maxConnections, windowSize>>
\* state that only the strategies, the history store and the latency
\* recordings of SpecWindow touch
storeVars == <<counter, history, recorded>>
histVars == <<cache, db, dbClosed, saves, now, histScore>>
lifeVars == <<stopCh, cancelled, shutdownPc, hcLoops, hcRecovered>>
mgrVars == <<mgrNow, mgrCfg, mgrTimers, mgrMap, mgrPlayers, idlePc, idleTimer,
             mgrPc, mgrArg, stops, offReturned, delayReturned>>
\* the addresses Record is called with
JsonAddrs == 1..NumJsonAddrs
\* the state of the subsystems beside the load balancer
startVars == <<starts, startMap, callPc, callEntry, callResult>>
permVars == <<permCache, permExpired, permPc, permUser, permCmd, permLevel,
              permExists, permAllowed, permFetches, permFailed>>
pingVars == <<pingInput, pingDone, pingOk>>
jsonVars == <<jsonBackends, jsonDirty, jsonFile, savePc, saveData, saveStop>>
subVars == <<mgrVars, startVars, permVars, pingVars, jsonVars>>
extVars == <<connMin, shown, subVars>>
callVars == <<statsPc, statsResult, adminPc, adminTarget, adminBefore,
              adminResult, extVars>>
\* state that the steps of Dial, Close, the health check and the admin
\* commands leave alone
otherVars == <<histVars, lifeVars, callVars>>
vars == <<backendVars, poolVars, connVars, closeVars, hcVars, ghostVars,
          seqVars, storeVars, otherVars, statsSeen>>

Min(a, b) == IF a < b THEN a ELSE b

(* ------------------------------------------------------- Backend methods *)

\* Backend.IsAvailable
IsAvailableNoCap(b) == ~disabled[b] /\ healthy[b]

IsAvailable(b) ==
    IF disabled[b] THEN FALSE
    ELSE IF ~healthy[b] THEN FALSE
    ELSE IF maxConnections[b] > 0 /\ currentConns[b] >= maxConnections[b]
         THEN FALSE
    ELSE TRUE

\* filterAvailable: the available backends, in declaration order
filterAvailable == {b \in backends : IsAvailable(b)}

\* Backend.RecordSuccess: failCount.Store(0)
RecordSuccess(fc) == 0

\* Backend.RecordFailure: failCount.Add(1)
RecordFailureTwice(fc) == fc + 2

RecordFailure(fc) == fc + 1

\* Backend.IncreaseTrust on the stored percentage
IncreaseTrustBy20(current) ==
    IF current < 100 THEN current + 20 ELSE current

IncreaseTrust(current) ==
    IF current < 100
    THEN (IF current + 10 > 100 THEN 100 ELSE current + 10)
    ELSE current

\* Backend.ResetTrust: trustCoeff.Store(50)
ResetTrust == 50

\* Backend.AddPlayer, critical section: players[name] = struct{}{}
AddPlayerSet(ps, name) == ps \cup {name}

\* Backend.RemovePlayer, critical section: _, exists := players[name]
RemovePlayerExistsAlways(ps, name) == TRUE

RemovePlayerExists(ps, name) == name \in ps

\* Backend.RemovePlayer, critical section: delete(players, name) if exists
RemovePlayerSet(ps, name) == ps \ {name}

\* sync.Once.Do runs its function iff no earlier Do call has
OnceDoAlways(done) == TRUE

OnceDo(done) == ~done

\* Backend.AddPlayer: currentConns.Add(1)
AddPlayerCountLost(n) == n

AddPlayerCount(n) == n + 1

(* ------------------------------------------------- Backend: latency window *)

\* Backend.RecordLatency, line 53-54: the window is at capacity and
\* latencyWindow[1:] is taken of an empty slice, which panics (slice bounds
\* out of range [1:0])
RecordLatencyPanics(w, size) == Len(w) >= size /\ Len(w) = 0

\* Backend.RecordLatency on the window w of capacity size: drop the oldest
\* sample of a full window, then append ms
RecordLatencyNoEvict(w, ms, size) == Append(w, ms)

RecordLatency(w, ms, size) ==
    Append(IF Len(w) >= size THEN SubSeq(w, 2, Len(w)) ELSE w, ms)

RECURSIVE SumTo(_, _)
\* w[1] + ... + w[n]
SumTo(w, n) == IF n = 0 THEN 0 ELSE SumTo(w, n - 1) + w[n]

RECURSIVE SqrtIn(_, _, _)
\* math.Sqrt rounded down: the r in lo..hi-1 with r*r <= x < (r+1)*(r+1)
SqrtIn(x, lo, hi) ==
    IF hi - lo <= 1 THEN lo
    ELSE LET mid == (lo + hi) \div 2
         IN IF mid * mid <= x THEN SqrtIn(x, mid, hi) ELSE SqrtIn(x, lo, mid)

Sqrt(x) == SqrtIn(x, 0, 46341)

\* Backend.AvgLatency, in units of 1/Scale ms
AvgLatencyFromTwo(w) ==
    IF Len(w) < 2 THEN 0 ELSE (SumTo(w, Len(w)) * Scale) \div Len(w)

AvgLatency(w) ==
    IF Len(w) = 0 THEN 0 ELSE (SumTo(w, Len(w)) * Scale) \div Len(w)

RECURSIVE VarianceTo(_, _, _)
\* the sum of diff * diff over w[1..n], diff := float64(v) - avg
VarianceTo(w, avg, n) ==
    IF n = 0 THEN 0
    ELSE VarianceTo(w, avg, n - 1)
         + (w[n] * Scale - avg) * (w[n] * Scale - avg)

\* Backend.Jitter (population standard deviation), in units of 1/Scale ms
Jitter(w) ==
    IF Len(w) < 2 THEN 0
    ELSE Sqrt(VarianceTo(w, AvgLatency(w), Len(w)) \div Len(w))

\* Backend.Trend: the change in percent, in units of 1/Scale, of the average
\* of the recent quarter of the window against the older three quarters
Trend(w) ==
    LET n == Len(w)
        recentStart == IF n - n \div 4 < 1 THEN 1 ELSE n - n \div 4
        olderSum == SumTo(w, recentStart)
        recentSum == SumTo(w, n) - olderSum
        recentAvg == (recentSum * Scale) \div (n - recentStart)
        olderAvg == (olderSum * Scale) \div recentStart
    IN IF n < minTrendSamples THEN 0
       ELSE IF olderAvg = 0 THEN 0
       ELSE ((recentAvg - olderAvg) * 100 * Scale) \div olderAvg

\* RelativeHealthScore, step 5: the trend adjustment, in units of 1/Scale
TrendAdjustment(trend) ==
    IF trend > 20 * Scale THEN 0 - 10 * Scale
    ELSE IF trend > 10 * Scale THEN 0 - 5 * Scale
    ELSE IF trend < 0 - 20 * Scale THEN 10 * Scale
    ELSE IF trend < 0 - 10 * Scale THEN 5 * Scale
    ELSE 0

\* Backend.RelativeHealthScore(minLatency, minJitter); the float64 score is
\* kept in units of 1/Scale, int(score) is the division by Scale
RelativeHealthScore(b, minLatency, minJitter) ==
    LET avg == AvgLatency(latencyWindow[b])
        jitter == Jitter(latencyWindow[b])
        latencyScore ==
            IF avg > 0 /\ minLatency > 0
            THEN (40 * Scale * minLatency) \div avg
            ELSE IF avg = 0 THEN 40 * Scale ELSE 0
        jitterScore ==
            IF jitter > 0 /\ minJitter > 0
            THEN (30 * Scale * minJitter) \div jitter
            ELSE IF jitter = 0 THEN 30 * Scale ELSE 0
        connScore ==
            IF maxConnections[b] > 0
            THEN 20 * (Scale - (currentConns[b] * Scale)
                                   \div maxConnections[b])
            ELSE 20 * Scale
        stabilityScore == IF failCount[b] = 0 THEN 10 * Scale ELSE 0
        score == ((latencyScore + jitterScore + connScore + stabilityScore
                   + TrendAdjustment(Trend(latencyWindow[b])))
                  * trustCoeff[b]) \div 100
    IN IF disabled[b] THEN 0
       ELSE IF ~healthy[b] THEN 0
       ELSE IF score < 0 THEN 0
       ELSE IF score > 100 * Scale THEN 100
       ELSE score \div Scale

\* Backend.HealthScore(jitterThreshold), "legacy, used for display only":
\* 100 less the penalties for latency, jitter, load and a failure streak,
\* times trust
HealthScore(b) ==
    LET avg == AvgLatency(latencyWindow[b])
        jitter == Jitter(latencyWindow[b])
        latencyPenalty ==
            IF avg > 0 THEN Min(avg \div (5 * Scale), 40) ELSE 0
        jitterPenalty ==
            IF jitter > 0 THEN Min(jitter \div (2 * Scale), 30) ELSE 0
        connPenalty ==
            IF maxConnections[b] > 0
            THEN (20 * currentConns[b]) \div maxConnections[b]
            ELSE 0
        failPenalty == IF failCount[b] > 0 THEN 10 ELSE 0
        score == ((100 - latencyPenalty - jitterPenalty - connPenalty
                   - failPenalty) * trustCoeff[b]) \div 100
    IN IF disabled[b] THEN 0
       ELSE IF ~healthy[b] THEN 0
       ELSE IF score < 0 THEN 0
       ELSE score

\* Backend.MCPing of a probe that takes elapsed ms: line 373-374 take
\* latency := time.Since(start) right after start := time.Now(), before the
\* dial, and line 397 returns that value; in milliseconds it is 0
MCPing(elapsed) == 0

(* ---------------------------------------------------------- HistoryManager *)

\* a backend without statistics for the current period
NoHistory == [Samples |-> 0, AvgLatency |-> 0, AvgJitter |-> 0]

\* HistoryManager.Record on the PeriodStats of the current period: the first
\* sample is taken as it is, later ones enter the moving average with
\* emaAlpha = 0.1
HistoryRecord(stats, latency, jitter) ==
    [Samples |-> IF stats.Samples < MaxSamples THEN stats.Samples + 1
                 ELSE stats.Samples,
     AvgLatency |-> IF stats.Samples = 0 THEN latency
                    ELSE (latency + 9 * stats.AvgLatency) \div 10,
     AvgJitter |-> IF stats.Samples = 0 THEN jitter
                   ELSE (jitter + 9 * stats.AvgJitter) \div 10]

\* HistoricalScore, the latency comparison; latencyRatio < 0.7 is written
\* 100 * currentLatency < 70 * avgLatency, and so on
LatencyComparisonLateFirst(avgLatency, currentLatency) ==
    IF avgLatency > 0 /\ currentLatency > 0
    THEN IF 100 * currentLatency < 70 * avgLatency THEN 8
         ELSE IF 100 * currentLatency < 85 * avgLatency THEN 4
         ELSE IF 100 * currentLatency > 120 * avgLatency THEN 0 - 4
         ELSE IF 100 * currentLatency > 150 * avgLatency THEN 0 - 8
         ELSE 0
    ELSE 0

LatencyComparison(avgLatency, currentLatency) ==
    IF avgLatency > 0 /\ currentLatency > 0
    THEN IF 100 * currentLatency < 70 * avgLatency THEN 8
         ELSE IF 100 * currentLatency < 85 * avgLatency THEN 4
         ELSE IF 100 * currentLatency > 150 * avgLatency THEN 0 - 8
         ELSE IF 100 * currentLatency > 120 * avgLatency THEN 0 - 4
         ELSE 0
    ELSE 0

\* HistoricalScore, the jitter comparison
JitterComparison(avgJitter, currentJitter) ==
    IF avgJitter > 0 /\ currentJitter > 0
    THEN IF 100 * currentJitter < 70 * avgJitter THEN 4
         ELSE IF 100 * currentJitter > 150 * avgJitter THEN 0 - 4
         ELSE 0
    ELSE 0

\* HistoryManager.HistoricalScore on the PeriodStats of the current period
HistoricalScoreFromFirst(stats, currentLatency, currentJitter) ==
    IF stats.Samples < 1 THEN 0
    ELSE LatencyComparison(stats.AvgLatency, currentLatency)
         + JitterComparison(stats.AvgJitter, currentJitter)

HistoricalScore(stats, currentLatency, currentJitter) ==
    IF stats.Samples < minSamplesForUse THEN 0
    ELSE LatencyComparison(stats.AvgLatency, currentLatency)
         + JitterComparison(stats.AvgJitter, currentJitter)

(* ------------------------------------------------------------ strategies *)

\* SequentialStrategy.Select: the first available backend
SelectSequentialFirst ==
    {b \in backends : \A o \in backends : b <= o}

SelectSequential ==
    {b \in backends : IsAvailable(b)
                      /\ \A o \in backends : o < b => ~IsAvailable(o)}

\* LeastConnectionsStrategy.Select: lowest currentConns, first encountered
SelectLeastConnectionsLast ==
    {b \in filterAvailable :
        \A o \in filterAvailable :
            /\ currentConns[b] <= currentConns[o]
            /\ (o > b => currentConns[o] > currentConns[b])}

SelectLeastConnections ==
    {b \in filterAvailable :
        \A o \in filterAvailable :
            /\ currentConns[b] <= currentConns[o]
            /\ (o < b => currentConns[o] > currentConns[b])}

\* RandomStrategy.Select: any available backend
SelectRandom == filterAvailable

\* available[idx] of the slice made of the backends of the set available,
\* in declaration order (idx counts from 0)
AvailableAt(available, idx) ==
    CHOOSE b \in available : Cardinality({o \in available : o < b}) = idx

\* RoundRobinStrategy.Select: s.counter.Add(1), the new value; the counter
\* is a uint64 and the runs modelled stay below MaxInitCounter + NumConns,
\* far from 2^64
CounterAddLost(c) == c

CounterAdd(c) == c + 1

\* RoundRobinStrategy.Select: idx := counter % len(available)
RoundRobinIndex(c, available) == c % Cardinality(available)

\* RoundRobinStrategy.Select run in one piece
SelectRoundRobin ==
    IF filterAvailable = {} THEN {}
    ELSE {AvailableAt(filterAvailable,
                      RoundRobinIndex(CounterAdd(counter), filterAvailable))}

\* HealthScoreStrategy.Select, line 70-88: the least positive value of
\* values, or the default 1
MinPositive(values) ==
    LET positive == {v \in values : v > 0}
    IN IF positive = {} THEN Scale
       ELSE CHOOSE v \in positive : \A o \in positive : v <= o

\* HealthScoreStrategy.Select, line 94-100: the score of b with the
\* historical adjustment
StrategyScore(b) ==
    RelativeHealthScore(
        b,
        MinPositive({AvgLatency(latencyWindow[o]) : o \in filterAvailable}),
        MinPositive({Jitter(latencyWindow[o]) : o \in filterAvailable}))
    + HistoricalScore(history[b], AvgLatency(latencyWindow[b]),
                      Jitter(latencyWindow[b]))

\* HealthScoreStrategy.Select: the first backend of the highest score, if
\* that is above bestScore := -1
SelectHealthScore ==
    {b \in filterAvailable :
        /\ StrategyScore(b) > 0 - 1
        /\ \A o \in filterAvailable :
              /\ StrategyScore(o) <= StrategyScore(b)
              /\ (o < b => StrategyScore(o) < StrategyScore(b))}

\* Strategy.Select of the pool's strategy: the backends it may return
\* (empty set: Select returns nil)
Select ==
    CASE strategy = "sequential" -> SelectSequential
      [] strategy = "least-connections" -> SelectLeastConnections
      [] strategy = "random" -> SelectRandom
      [] strategy = "round-robin" -> SelectRoundRobin
      [] strategy = "health-score" -> SelectHealthScore

(* ----------------------------------------------------------- Backend.Stats *)

\* the fields of the first backend that Stats() reads with atomic loads and
\* under playersMu
Snapshot ==
    [CurrentConns |-> currentConns[1], FailCount |-> failCount[1],
     Healthy |-> healthy[1], Disabled |-> disabled[1],
     Players |-> players[1]]

\* Stats, line 403-410: the fields of BackendStats that are read from the
\* backend's changing state, in the order the struct literal evaluates them
NumStatsFields == 7

StatsField(k) ==
    CASE k = 1 -> currentConns[1]
      [] k = 2 -> AvgLatency(latencyWindow[1])
      [] k = 3 -> Jitter(latencyWindow[1])
      [] k = 4 -> failCount[1]
      [] k = 5 -> healthy[1]
      [] k = 6 -> disabled[1]
      [] k = 7 -> players[1]

\* every step taken while a Stats() call runs adds the state it leads to
StatsObserve ==
    statsSeen' = IF statsPc \in 1..NumStatsFields
                 THEN statsSeen \cup {Snapshot'}
                 ELSE statsSeen

\* GetServerStats, line 250: b.Stats() is called on the first backend
StatsCall ==
    /\ statsPc = 0
    /\ statsPc' = 1
    /\ statsResult' = <<>>
    /\ statsSeen' = {Snapshot}
    /\ UNCHANGED <<backendVars, poolVars, connVars, closeVars, hcVars,
                   ghostVars, seqVars, storeVars, histVars, lifeVars,
                   adminPc, adminTarget, adminBefore, adminResult,
                   extVars>>

\* Stats, line 403-410: the next field is loaded; after the last one the
\* BackendStats is returned
StatsRead ==
    /\ statsPc \in 1..NumStatsFields
    /\ statsResult' = Append(statsResult, StatsField(statsPc))
    /\ statsPc' = statsPc + 1
    /\ statsSeen' = statsSeen
    /\ UNCHANGED <<backendVars, poolVars, connVars, closeVars, hcVars,
                   ghostVars, seqVars, storeVars, histVars, lifeVars,
                   adminPc, adminTarget, adminBefore, adminResult,
                   extVars>>

(* ------------------------------------------------------------------ Init *)

\* the goroutines that call EnsureServerRunning
Callers == 1..NumCallers

\* the command events being handled
PermCalls == 1..NumPermCalls

\* NewShutdownConfig(true)
NewShutdownConfig == [present |-> TRUE, enabled |-> TRUE, protectionEnd |-> 0]

\* NewManager: no server configuration, no timer, nobody online, the idle
\* check waiting for its ticker
InitManager ==
    /\ mgrNow = 0
    /\ mgrCfg = [present |-> FALSE, enabled |-> TRUE, protectionEnd |-> 0]
    /\ mgrTimers = <<>>
    /\ mgrMap = 0
    /\ mgrPlayers = 0
    /\ idlePc = "idle"
    /\ idleTimer = 0
    /\ mgrPc = "off"
    /\ mgrArg = 0
    /\ stops = 0
    /\ offReturned = FALSE
    /\ delayReturned = FALSE
    /\ starts = <<>>
    /\ startMap = 0
    /\ callPc = [k \in Callers |-> "idle"]
    /\ callEntry = [k \in Callers |-> 0]
    /\ callResult = [k \in Callers |-> FALSE]
    /\ permCache = [u \in {} |-> 0]
    /\ permExpired = TRUE
    /\ permPc = [k \in PermCalls |-> "idle"]
    /\ permUser = [k \in PermCalls |-> 1]
    /\ permCmd = [k \in PermCalls |-> <<>>]
    /\ permLevel = [k \in PermCalls |-> 0]
    /\ permExists = [k \in PermCalls |-> FALSE]
    /\ permAllowed = [k \in PermCalls |-> FALSE]
    /\ permFetches = [k \in PermCalls |-> 0]
    /\ permFailed = [k \in PermCalls |-> FALSE]
    /\ pingInput = [writeErr |-> 0, pre |-> <<>>, fill |-> 0]
    /\ pingDone = FALSE
    /\ pingOk = FALSE
    /\ jsonBackends = [a \in JsonAddrs |-> 0]
    /\ jsonDirty = FALSE
    /\ jsonFile = [a \in JsonAddrs |-> 0]
    /\ savePc = "idle"
    /\ saveData = [a \in JsonAddrs |-> 0]
    /\ saveStop = FALSE

\* LoadBalancer.Start has run: one health-check loop, no Shutdown, no
\* Stats() call and no admin command yet
InitStarted ==
    /\ stopCh = FALSE
    /\ cancelled = FALSE
    /\ shutdownPc = "none"
    /\ hcLoops = 1
    /\ hcRecovered = FALSE
    /\ statsPc = 0
    /\ statsResult = <<>>
    /\ statsSeen = {}
    /\ adminPc = "off"
    /\ adminTarget = 1
    /\ adminBefore = [available |-> FALSE, disabled |-> FALSE]
    /\ adminResult = FALSE
    /\ connMin = [c \in Conns |-> <<0, 0>>]
    /\ shown = <<>>
    /\ pings = [b \in Backends |-> 0]
    /\ skips = [b \in Backends |-> 0]
    /\ InitManager

\* the same after NewHistoryManager on an empty database, at midnight
InitOther ==
    /\ InitStarted
    /\ cache = [b \in Backends |-> <<>>]
    /\ db = [k \in {} |-> NoHistory]
    /\ dbClosed = FALSE
    /\ saves = <<>>
    /\ now = <<0, 0>>
    /\ histScore = <<>>

\* NewBackend and the goroutines' starting points, but for the attached
\* players
InitState ==
    /\ failCount = [b \in Backends |-> 0]
    /\ successCount = [b \in Backends |-> 0]
    /\ healthy = [b \in Backends |-> TRUE]
    /\ disabled = [b \in Backends |-> FALSE]
    /\ trustCoeff = [b \in Backends |-> 100]
    /\ strategy \in Strategies
    /\ connPc = [c \in Conns |-> "idle"]
    /\ connBackend = [c \in Conns |-> 1]
    /\ connName = [c \in Conns |-> 0]
    /\ closeOnce = [c \in Conns |-> FALSE]
    /\ closePc = [c \in Conns |-> "none"]
    /\ closeExists = [c \in Conns |-> FALSE]
    /\ closeCalls = [c \in Conns |-> 0]
    /\ hcPc = "idle"
    /\ hcIdx = 1
    /\ wasUnhealthy = FALSE
    /\ probeFails = [b \in Backends |-> 0]
    /\ probeSuccs = [b \in Backends |-> 0]
    /\ decs = [c \in Conns |-> 0]
    /\ removals = [c \in Conns |-> 0]
    /\ latencyWindow = [b \in Backends |-> <<>>]
    /\ lastCheckTime = [b \in Backends |-> 0]
    /\ counter = 0
    /\ connAvail = [c \in Conns |-> {}]
    /\ connCounter = [c \in Conns |-> 0]
    /\ recorded = [b \in Backends |-> <<>>]
    /\ maxConnections = MaxConnections

\* NewBackend: no player attached
InitNoPlayers ==
    /\ currentConns = [b \in Backends |-> 0]
    /\ players = [b \in Backends |-> {}]
    /\ seqPc = "off"
    /\ seqName = 0
    /\ seqBefore = 0

\* registerServer: the pool of the configured backends
Init ==
    /\ InitOther
    /\ InitState
    /\ InitNoPlayers
    /\ backends = 1..NumBackends
    /\ windowSize = WindowSize
    /\ history = [b \in Backends |-> NoHistory]

\* HistoryManager.load: the statistics a long-running pool has saved
LoadedHistory ==
    [Samples |-> MaxSamples,
     AvgLatency |-> MCPing(MeasuredLatency) * Scale, AvgJitter |-> 0]

InitHealth ==
    /\ InitOther
    /\ InitState
    /\ InitNoPlayers
    /\ backends = 1..NumHealthBackends
    /\ windowSize = WindowSize
    /\ history = [b \in Backends |-> LoadedHistory]

(* ------------------------------------------------- LoadBalancedServerInfo *)

DialReady(c) == connPc[c] \in {"idle", "no-backend", "dial-failed"}

\* Dial, line 58-61: strategy.Select returned nil
DialNoBackend(c) ==
    /\ DialReady(c)
    /\ Select = {}
    /\ connPc' = [connPc EXCEPT ![c] = "no-backend"]
    /\ UNCHANGED <<backendVars, poolVars, otherVars, connBackend, connName,
                   closeVars, hcVars, ghostVars, seqVars, connAvail,
                   connCounter, storeVars>>
    /\ StatsObserve

\* Dial, line 58: strategy.Select returned a backend; the TCP connect starts
DialSelectReserving(c) ==
    /\ DialReady(c)
    /\ strategy # "round-robin"
    /\ \E b \in Select, n \in Names :
          /\ connBackend' = [connBackend EXCEPT ![c] = b]
          /\ connName' = [connName EXCEPT ![c] = n]
          /\ currentConns' = [currentConns EXCEPT ![b] = @ + 1]
    /\ connPc' = [connPc EXCEPT ![c] = "connect"]
    /\ UNCHANGED <<failCount, successCount, healthy, disabled, trustCoeff,
                   players, latencyWindow, lastCheckTime, poolVars, otherVars,
                   closeVars, hcVars, ghostVars, seqVars, connAvail,
                   connCounter, storeVars>>
    /\ StatsObserve

DialSelect(c) ==
    /\ DialReady(c)
    /\ strategy # "round-robin"
    /\ \E b \in Select, n \in Names :
          /\ connBackend' = [connBackend EXCEPT ![c] = b]
          /\ connName' = [connName EXCEPT ![c] = n]
    /\ connPc' = [connPc EXCEPT ![c] = "connect"]
    /\ UNCHANGED <<backendVars, poolVars, otherVars, closeVars, hcVars,
                   ghostVars, seqVars, connAvail, connCounter, storeVars>>
    /\ StatsObserve

\* Dial, line 58, RoundRobinStrategy.Select, line 23-26: filterAvailable
\* found a backend
RoundRobinFilter(c) ==
    /\ DialReady(c)
    /\ strategy = "round-robin"
    /\ filterAvailable # {}
    /\ connAvail' = [connAvail EXCEPT ![c] = filterAvailable]
    /\ \E n \in Names : connName' = [connName EXCEPT ![c] = n]
    /\ connPc' = [connPc EXCEPT ![c] = "rr-add"]
    /\ UNCHANGED <<backendVars, poolVars, otherVars, closeVars, hcVars,
                   ghostVars, seqVars, connBackend, connCounter, storeVars>>
    /\ StatsObserve

\* RoundRobinStrategy.Select, line 28-29: counter.Add(1) and the backend at
\* that index; the TCP connect starts
RoundRobinAdd(c) ==
    /\ connPc[c] = "rr-add"
    /\ counter' = CounterAdd(counter)
    /\ connCounter' = [connCounter EXCEPT ![c] = counter']
    /\ connBackend' = [connBackend EXCEPT
                          ![c] = AvailableAt(
                                     connAvail[c],
                                     RoundRobinIndex(counter', connAvail[c]))]
    /\ connPc' = [connPc EXCEPT ![c] = "connect"]
    /\ UNCHANGED <<backendVars, poolVars, otherVars, closeVars, hcVars,
                   ghostVars, seqVars, connName, connAvail, history,
                   recorded>>
    /\ StatsObserve

\* Dial, line 73-74: the connect failed; backend.RecordFailure()
DialFail(c) ==
    /\ connPc[c] = "connect"
    /\ failCount[connBackend[c]] < MaxCount
    /\ failCount' = [failCount EXCEPT
                        ![connBackend[c]] = RecordFailure(@)]
    /\ connPc' = [connPc EXCEPT ![c] = "fail-latency"]
    /\ UNCHANGED <<currentConns, successCount, healthy, disabled, trustCoeff,
                   players, poolVars, otherVars, connBackend, connName,
                   closeVars, hcVars, ghostVars, seqVars, latencyWindow,
                   lastCheckTime, connAvail, connCounter, storeVars>>
    /\ StatsObserve

\* Dial, line 75-77: backend.RecordLatency(latency); Dial returns the error
\* that names backend.Addr
DialFailRecordLatency(c) ==
    /\ connPc[c] = "fail-latency"
    /\ ~RecordLatencyPanics(latencyWindow[connBackend[c]], windowSize)
    /\ latencyWindow' =
          [latencyWindow EXCEPT
              ![connBackend[c]] = RecordLatency(@, MeasuredLatency,
                                                windowSize)]
    /\ connPc' = [connPc EXCEPT ![c] = "dial-failed"]
    /\ UNCHANGED <<currentConns, failCount, successCount, healthy, disabled,
                   trustCoeff, players, lastCheckTime, poolVars, otherVars,
                   connBackend, connName, connAvail, connCounter, closeVars,
                   hcVars, ghostVars, seqVars, storeVars>>
    /\ StatsObserve

\* Dial, line 84: the connect succeeded; backend.RecordSuccess()
DialSucceed(c) ==
    /\ connPc[c] = "connect"
    /\ failCount' = [failCount EXCEPT
                        ![connBackend[c]] = RecordSuccess(@)]
    /\ connPc' = [connPc EXCEPT ![c] = "ok-latency"]
    /\ UNCHANGED <<currentConns, successCount, healthy, disabled, trustCoeff,
                   players, poolVars, otherVars, connBackend, connName,
                   closeVars, hcVars, ghostVars, seqVars, latencyWindow,
                   lastCheckTime, connAvail, connCounter, storeVars>>
    /\ StatsObserve

\* Dial, line 85: backend.RecordLatency(latency)
DialSucceedRecordLatency(c) ==
    /\ connPc[c] = "ok-latency"
    /\ ~RecordLatencyPanics(latencyWindow[connBackend[c]], windowSize)
    /\ latencyWindow' =
          [latencyWindow EXCEPT
              ![connBackend[c]] = RecordLatency(@, MeasuredLatency,
                                                windowSize)]
    /\ connPc' = [connPc EXCEPT ![c] = "add-lock"]
    /\ UNCHANGED <<currentConns, failCount, successCount, healthy, disabled,
                   trustCoeff, players, lastCheckTime, poolVars, otherVars,
                   connBackend, connName, connAvail, connCounter, closeVars,
                   hcVars, ghostVars, seqVars, storeVars>>
    /\ StatsObserve

\* Dial, line 86: backend.AddPlayer, the section under playersMu
AddPlayerLock(c) ==
    /\ connPc[c] = "add-lock"
    /\ players' = [players EXCEPT
                      ![connBackend[c]] = AddPlayerSet(@, connName[c])]
    /\ connPc' = [connPc EXCEPT ![c] = "add-inc"]
    /\ UNCHANGED <<currentConns, failCount, successCount, healthy, disabled,
                   trustCoeff, poolVars, otherVars, connBackend, connName,
                   closeVars, hcVars, ghostVars, seqVars, latencyWindow,
                   lastCheckTime, connAvail, connCounter, storeVars>>
    /\ StatsObserve

\* Dial, line 86-92: backend.AddPlayer, currentConns.Add(1); Dial returns
\* the trackedConn
AddPlayerInc(c) ==
    /\ connPc[c] = "add-inc"
    /\ currentConns' = [currentConns EXCEPT
                           ![connBackend[c]] = AddPlayerCount(@)]
    /\ connPc' = [connPc EXCEPT ![c] = "open"]
    /\ UNCHANGED <<failCount, successCount, healthy, disabled, trustCoeff,
                   players, poolVars, otherVars, connBackend, connName,
                   closeVars, hcVars, ghostVars, seqVars, latencyWindow,
                   lastCheckTime, connAvail, connCounter, storeVars>>
    /\ StatsObserve

(* ----------------------------------------------------------- trackedConn *)

\* trackedConn.Close: a call that enters closeOnce.Do and runs the function:
\* RemovePlayer, the section under playersMu
CloseFirst(c) ==
    /\ connPc[c] = "open"
    /\ closeCalls[c] < MaxCloseCalls
    /\ closePc[c] = "none"
    /\ OnceDo(closeOnce[c])
    /\ closeOnce' = [closeOnce EXCEPT ![c] = TRUE]
    /\ closeCalls' = [closeCalls EXCEPT ![c] = @ + 1]
    /\ LET b == connBackend[c]
           exists == RemovePlayerExists(players[b], connName[c])
       IN /\ closeExists' = [closeExists EXCEPT ![c] = exists]
          /\ players' = [players EXCEPT
                            ![b] = IF exists
                                   THEN RemovePlayerSet(@, connName[c])
                                   ELSE @]
          /\ removals' = [removals EXCEPT
                            ![c] = IF exists THEN @ + 1 ELSE @]
    /\ closePc' = [closePc EXCEPT ![c] = "rm-dec"]
    /\ UNCHANGED <<currentConns, failCount, successCount, healthy, disabled,
                   trustCoeff, poolVars, otherVars, connVars, hcVars,
                   probeFails, probeSuccs, decs, tickVars, seqVars,
                   latencyWindow,
                   lastCheckTime, storeVars>>
    /\ StatsObserve

\* RemovePlayer, line 297-299: currentConns.Add(-1) if the name existed;
\* closeOnce.Do returns
CloseDec(c) ==
    /\ closePc[c] = "rm-dec"
    /\ currentConns' = [currentConns EXCEPT
                           ![connBackend[c]] =
                               IF closeExists[c] THEN @ - 1 ELSE @]
    /\ decs' = [decs EXCEPT ![c] = IF closeExists[c] THEN @ + 1 ELSE @]
    /\ closePc' = [closePc EXCEPT ![c] = "none"]
    /\ UNCHANGED <<failCount, successCount, healthy, disabled, trustCoeff,
                   players, poolVars, otherVars, connVars, closeOnce,
                   closeExists, closeCalls, hcVars, probeFails, probeSuccs,
                   tickVars,
                   removals, seqVars, latencyWindow, lastCheckTime,
                   storeVars>>
    /\ StatsObserve

\* trackedConn.Close: a call that finds closeOnce used (it waits for a
\* running Do to return) and only closes the underlying connection
CloseAgain(c) ==
    /\ connPc[c] = "open"
    /\ closeCalls[c] < MaxCloseCalls
    /\ ~OnceDo(closeOnce[c])
    /\ closeCalls' = [closeCalls EXCEPT ![c] = @ + 1]
    /\ UNCHANGED <<backendVars, poolVars, otherVars, connVars, closeOnce,
                   closePc, closeExists, hcVars, ghostVars, seqVars,
                   storeVars>>
    /\ StatsObserve

(* ------------------------------------------- LoadBalancer: health check *)

\* checkAllBackends, line 175: the recovery threshold test
RecoveryReachedLate(sc) == sc > HealthyAfterSuccesses

RecoveryReached(sc) == sc >= HealthyAfterSuccesses

\* checkAllBackends, line 157: the unhealthy threshold test
UnhealthyReached(fc) == fc >= UnhealthyAfterFailures

\* SetLastCheckTime(time.Now()): the time of a probe (0 is the zero value of
\* a backend never probed)
ProbeTime == 1

\* a loop that ends the tick after the backend it has handled
HCAdvanceLast == hcPc' = "idle" /\ hcIdx' = 1

\* the loop moves on to the next backend of the pool, or the tick ends
HCAdvance ==
    IF hcIdx + 1 \in backends
    THEN hcPc' = "probe" /\ hcIdx' = hcIdx + 1
    ELSE hcPc' = "idle" /\ hcIdx' = 1

HCBackendUnchanged ==
    UNCHANGED <<currentConns, failCount, successCount, healthy, disabled,
                trustCoeff, players, latencyWindow, lastCheckTime, history>>

\* the observers of a tick: the step from "idle" starts a tick, the step
\* from "probe" to "ping" is a call of MCPing, any other step from "probe"
\* passes the backend by
TickObserve ==
    /\ pings' = IF hcPc = "idle" /\ hcPc' = "probe"
                THEN [b \in Backends |-> 0]
                ELSE IF hcPc = "probe" /\ hcPc' = "ping"
                     THEN [pings EXCEPT ![hcIdx] = @ + 1]
                     ELSE pings
    /\ skips' = IF hcPc = "idle" /\ hcPc' = "probe"
                THEN [b \in Backends |-> 0]
                ELSE IF hcPc = "probe" /\ hcPc' # "ping"
                     THEN [skips EXCEPT ![hcIdx] = @ + 1]
                     ELSE skips

HCOthersUnchanged ==
    /\ UNCHANGED <<poolVars, otherVars, connVars, closeVars, decs, removals,
                   seqVars, counter, recorded>>
    /\ TickObserve
    /\ StatsObserve

\* healthCheckLoop, line 127-128: the ticker fires, checkAllBackends starts
HCTick ==
    /\ hcPc = "idle"
    /\ hcPc' = "probe"
    /\ hcIdx' = 1
    /\ UNCHANGED <<wasUnhealthy, probeFails, probeSuccs>>
    /\ HCBackendUnchanged /\ HCOthersUnchanged

\* checkAllBackends, line 148-150: a disabled backend is skipped
HCSkipDisabled ==
    /\ hcPc = "probe"
    /\ disabled[hcIdx]
    /\ HCAdvance
    /\ UNCHANGED <<wasUnhealthy, probeFails, probeSuccs>>
    /\ HCBackendUnchanged /\ HCOthersUnchanged

\* checkAllBackends, line 148-152: the backend is not disabled, and
\* backend.MCPing(timeout) starts
HCPing ==
    /\ hcPc = "probe"
    /\ ~disabled[hcIdx]
    /\ hcPc' = "ping"
    /\ UNCHANGED <<hcIdx, wasUnhealthy, probeFails, probeSuccs>>
    /\ HCBackendUnchanged /\ HCOthersUnchanged

\* line 152-156: MCPing failed; SetLastCheckTime;
\* RecordHealthCheckFailure: failCount.Add(1) and successCount.Store(0)
\* (lastCheckTime and successCount are written by this goroutine only, so
\* the stores are one step)
HCProbeFail ==
    /\ hcPc = "ping"
    /\ failCount[hcIdx] < MaxCount
    /\ lastCheckTime' = [lastCheckTime EXCEPT ![hcIdx] = ProbeTime]
    /\ failCount' = [failCount EXCEPT ![hcIdx] = RecordFailure(@)]
    /\ successCount' = [successCount EXCEPT ![hcIdx] = 0]
    /\ probeFails' = [probeFails EXCEPT
                         ![hcIdx] = Min(@ + 1, UnhealthyAfterFailures)]
    /\ probeSuccs' = [probeSuccs EXCEPT ![hcIdx] = 0]
    /\ hcPc' = "fail-check"
    /\ UNCHANGED <<currentConns, healthy, disabled, trustCoeff, players,
                   latencyWindow, history, hcIdx, wasUnhealthy>>
    /\ HCOthersUnchanged

\* line 157-158: backend.FailCount() >= UnhealthyAfterFailures, then
\* backend.IsHealthy() (healthy is written by this goroutine only)
HCFailCheck ==
    /\ hcPc = "fail-check"
    /\ IF UnhealthyReached(failCount[hcIdx]) /\ healthy[hcIdx]
       THEN hcPc' = "fail-set" /\ hcIdx' = hcIdx
       ELSE HCAdvance
    /\ UNCHANGED <<wasUnhealthy, probeFails, probeSuccs>>
    /\ HCBackendUnchanged /\ HCOthersUnchanged

\* line 159: backend.SetHealthy(false)
HCSetUnhealthy ==
    /\ hcPc = "fail-set"
    /\ healthy' = [healthy EXCEPT ![hcIdx] = FALSE]
    /\ HCAdvance
    /\ UNCHANGED <<currentConns, failCount, successCount, disabled,
                   trustCoeff, players, wasUnhealthy, probeFails, probeSuccs,
                   latencyWindow, lastCheckTime, history>>
    /\ HCOthersUnchanged

\* line 152-153, 168: MCPing succeeded; SetLastCheckTime;
\* backend.RecordLatency(latency)
HCProbeOk ==
    /\ hcPc = "ping"
    /\ successCount[hcIdx] < MaxSuccessCount
    /\ ~RecordLatencyPanics(latencyWindow[hcIdx], windowSize)
    /\ lastCheckTime' = [lastCheckTime EXCEPT ![hcIdx] = ProbeTime]
    /\ latencyWindow' =
          [latencyWindow EXCEPT
              ![hcIdx] = RecordLatency(@, MCPing(MeasuredLatency),
                                       windowSize)]
    /\ hcPc' = "ok-history"
    /\ UNCHANGED <<currentConns, failCount, successCount, healthy, disabled,
                   trustCoeff, players, history, hcIdx, wasUnhealthy,
                   probeFails, probeSuccs>>
    /\ HCOthersUnchanged

\* line 169-170: jitter := backend.Jitter(); history.Record(backend.Addr,
\* latency, jitter)
HCHistoryRecord ==
    /\ hcPc = "ok-history"
    /\ history' = [history EXCEPT
                      ![hcIdx] = HistoryRecord(
                                     @, MCPing(MeasuredLatency) * Scale,
                                     Jitter(latencyWindow[hcIdx]))]
    /\ hcPc' = "ok-count"
    /\ UNCHANGED <<backendVars, hcIdx, wasUnhealthy, probeFails, probeSuccs>>
    /\ HCOthersUnchanged

\* line 172-175: wasUnhealthy := !backend.IsHealthy();
\* RecordHealthCheckSuccess: failCount.Store(0), successCount.Add(1); then
\* the branch on wasUnhealthy and on SuccessCount() >= HealthyAfterSuccesses
\* (reads of values this goroutine alone writes)
HCRecordSuccess ==
    /\ hcPc = "ok-count"
    /\ wasUnhealthy' = ~healthy[hcIdx]
    /\ failCount' = [failCount EXCEPT ![hcIdx] = RecordSuccess(@)]
    /\ successCount' = [successCount EXCEPT ![hcIdx] = @ + 1]
    /\ probeFails' = [probeFails EXCEPT ![hcIdx] = 0]
    /\ probeSuccs' = [probeSuccs EXCEPT
                         ![hcIdx] = IF healthy[hcIdx] THEN 0
                                    ELSE Min(@ + 1, HealthyAfterSuccesses + 1)]
    /\ IF ~healthy[hcIdx]
       THEN IF RecoveryReached(successCount[hcIdx] + 1)
            THEN hcPc' = "ok-set" /\ hcIdx' = hcIdx
            ELSE HCAdvance
       ELSE hcPc' = "ok-trust" /\ hcIdx' = hcIdx
    /\ UNCHANGED <<currentConns, healthy, disabled, trustCoeff, players,
                   latencyWindow, lastCheckTime, history>>
    /\ HCOthersUnchanged

\* line 176: backend.SetHealthy(true)
HCSetHealthy ==
    /\ hcPc = "ok-set"
    /\ healthy' = [healthy EXCEPT ![hcIdx] = TRUE]
    /\ hcPc' = "ok-resettrust"
    /\ UNCHANGED <<currentConns, failCount, successCount, disabled,
                   trustCoeff, players, hcIdx, wasUnhealthy, probeFails,
                   probeSuccs,
                   latencyWindow, lastCheckTime, history>>
    /\ HCOthersUnchanged

\* line 177: backend.ResetTrust()
HCResetTrust ==
    /\ hcPc = "ok-resettrust"
    /\ trustCoeff' = [trustCoeff EXCEPT ![hcIdx] = ResetTrust]
    /\ hcPc' = "ok-resetcount"
    /\ UNCHANGED <<currentConns, failCount, successCount, healthy, disabled,
                   players, hcIdx, wasUnhealthy, probeFails, probeSuccs,
                   latencyWindow, lastCheckTime, history>>
    /\ HCOthersUnchanged

\* line 178: backend.ResetSuccessCount()
HCResetSuccessCount ==
    /\ hcPc = "ok-resetcount"
    /\ successCount' = [successCount EXCEPT ![hcIdx] = 0]
    /\ hcPc' = "ok-recovered"
    /\ UNCHANGED <<currentConns, failCount, healthy, disabled, trustCoeff,
                   players, hcIdx, wasUnhealthy, probeFails, probeSuccs,
                   latencyWindow, lastCheckTime, history>>
    /\ HCOthersUnchanged

\* line 179-184: the "Backend recovered" log entry ends the recovery
HCLogRecovered ==
    /\ hcPc = "ok-recovered"
    /\ HCAdvance
    /\ UNCHANGED <<wasUnhealthy, probeFails, probeSuccs>>
    /\ HCBackendUnchanged /\ HCOthersUnchanged

\* line 187: backend.IncreaseTrust()
HCIncreaseTrust ==
    /\ hcPc = "ok-trust"
    /\ trustCoeff' = [trustCoeff EXCEPT ![hcIdx] = IncreaseTrust(@)]
    /\ HCAdvance
    /\ UNCHANGED <<currentConns, failCount, successCount, healthy, disabled,
                   players, wasUnhealthy, probeFails, probeSuccs,
                   latencyWindow, lastCheckTime, history>>
    /\ HCOthersUnchanged

(* -------------------------------------------- LoadBalancer: administration *)

\* DisableBackend: b.SetDisabled(true)
DisableBackend(b) ==
    /\ disabled' = [disabled EXCEPT ![b] = TRUE]
    /\ UNCHANGED <<currentConns, failCount, successCount, healthy, trustCoeff,
                   players, poolVars, otherVars, connVars, closeVars, hcVars,
                   ghostVars, seqVars, latencyWindow, lastCheckTime,
                   storeVars>>
    /\ StatsObserve

\* EnableBackend: b.SetDisabled(false)
EnableBackend(b) ==
    /\ disabled' = [disabled EXCEPT ![b] = FALSE]
    /\ UNCHANGED <<currentConns, failCount, successCount, healthy, trustCoeff,
                   players, poolVars, otherVars, connVars, closeVars, hcVars,
                   ghostVars, seqVars, latencyWindow, lastCheckTime,
                   storeVars>>
    /\ StatsObserve

\* Backend.SetDisabled(v) on backend b
SetDisabledAll(b, v) == [x \in Backends |-> v]

SetDisabled(b, v) == [disabled EXCEPT ![b] = v]

\* LoadBalancer.DisableBackend(serverName, a), the first command of an
\* admin: the loop over server.Backends() finds address a and calls
\* SetDisabled(true), or finds nothing (unknown pool or address) and
\* returns false
DisableBackendCall(a) ==
    /\ adminPc = "off"
    /\ adminTarget' = a
    /\ adminBefore' = [available |-> a \in backends /\ IsAvailable(a),
                       disabled |-> disabled[a]]
    /\ disabled' = IF a \in backends THEN SetDisabled(a, TRUE) ELSE disabled
    /\ adminResult' = (a \in backends)
    /\ adminPc' = "disabled"
    /\ UNCHANGED <<currentConns, failCount, successCount, healthy, trustCoeff,
                   players, latencyWindow, lastCheckTime, poolVars, connVars,
                   closeVars, hcVars, ghostVars, seqVars, storeVars, histVars,
                   lifeVars, statsPc, statsResult, extVars>>
    /\ StatsObserve

\* LoadBalancer.EnableBackend(serverName, a), the admin's next command on
\* the same address
EnableBackendCall ==
    /\ adminPc = "disabled"
    /\ disabled' = IF adminTarget \in backends
                   THEN SetDisabled(adminTarget, FALSE) ELSE disabled
    /\ adminResult' = (adminTarget \in backends)
    /\ adminPc' = "enabled"
    /\ UNCHANGED <<adminTarget, adminBefore>>
    /\ UNCHANGED <<currentConns, failCount, successCount, healthy, trustCoeff,
                   players, latencyWindow, lastCheckTime, poolVars, connVars,
                   closeVars, hcVars, ghostVars, seqVars, storeVars, histVars,
                   lifeVars, statsPc, statsResult, extVars>>
    /\ StatsObserve

(* ------------------------------------------------------------------ Spec *)

\* Dials and Closes of NumConns connections with the admin commands
Next ==
    \/ \E c \in Conns : DialNoBackend(c)
    \/ \E c \in Conns : DialSelect(c)
    \/ \E c \in Conns : DialFail(c)
    \/ \E c \in Conns : DialFailRecordLatency(c)
    \/ \E c \in Conns : DialSucceed(c)
    \/ \E c \in Conns : DialSucceedRecordLatency(c)
    \/ \E c \in Conns : AddPlayerLock(c)
    \/ \E c \in Conns : AddPlayerInc(c)
    \/ \E c \in Conns : CloseFirst(c)
    \/ \E c \in Conns : CloseDec(c)
    \/ \E c \in Conns : CloseAgain(c)
    \/ \E b \in backends : DisableBackend(b)
    \/ \E b \in backends : EnableBackend(b)

Spec == Init /\ [][Next]_vars

\* the health-check loop with the Dials and Closes of NumHealthConns
\* connections and the admin commands
HealthConns == 1..NumHealthConns

NextHealth ==
    \/ \E c \in HealthConns : DialNoBackend(c)
    \/ \E c \in HealthConns : DialSelect(c)
    \/ \E c \in HealthConns : DialFail(c)
    \/ \E c \in HealthConns : DialFailRecordLatency(c)
    \/ \E c \in HealthConns : DialSucceed(c)
    \/ \E c \in HealthConns : DialSucceedRecordLatency(c)
    \/ \E c \in HealthConns : AddPlayerLock(c)
    \/ \E c \in HealthConns : AddPlayerInc(c)
    \/ \E c \in HealthConns : CloseFirst(c)
    \/ \E c \in HealthConns : CloseDec(c)
    \/ \E c \in HealthConns : CloseAgain(c)
    \/ HCTick
    \/ HCSkipDisabled
    \/ HCPing
    \/ HCProbeFail
    \/ HCFailCheck
    \/ HCSetUnhealthy
    \/ HCProbeOk
    \/ HCHistoryRecord
    \/ HCRecordSuccess
    \/ HCSetHealthy
    \/ HCResetTrust
    \/ HCResetSuccessCount
    \/ HCLogRecovered
    \/ HCIncreaseTrust
    \/ \E b \in backends : DisableBackend(b)
    \/ \E b \in backends : EnableBackend(b)

SpecHealth == InitHealth /\ [][NextHealth]_vars

(* ------------------------------------- Attach / Detach / Detach sequence *)

\* any state of the player bookkeeping of backend 1 and any name n, before
\* AddPlayer(n); RemovePlayer(n); RemovePlayer(n) runs on it
InitAttach ==
    /\ InitOther
    /\ InitState
    /\ backends = {1}
    /\ \E k \in 0..MaxCount :
          /\ currentConns = [b \in Backends |-> IF b = 1 THEN k ELSE 0]
          /\ seqBefore = k
    /\ \E ps \in SUBSET Names :
          players = [b \in Backends |-> IF b = 1 THEN ps ELSE {}]
    /\ seqName \in Names
    /\ seqPc = "start"
    /\ windowSize = WindowSize
    /\ history = [b \in Backends |-> NoHistory]

SeqUnchanged ==
    /\ UNCHANGED <<failCount, successCount, healthy, disabled, trustCoeff,
                   poolVars, otherVars, connVars, closeVars, hcVars,
                   ghostVars, seqName, seqBefore, latencyWindow,
                   lastCheckTime, storeVars>>
    /\ StatsObserve

\* Backend.AddPlayer(n), run to completion
SeqAddPlayer ==
    /\ seqPc = "start"
    /\ players' = [players EXCEPT ![1] = AddPlayerSet(@, seqName)]
    /\ currentConns' = [currentConns EXCEPT ![1] = AddPlayerCount(@)]
    /\ seqPc' = "attached"
    /\ SeqUnchanged

\* Backend.RemovePlayer(n), run to completion
RemovePlayer(pcAfter) ==
    LET exists == RemovePlayerExists(players[1], seqName)
    IN /\ players' = [players EXCEPT
                         ![1] = IF exists THEN RemovePlayerSet(@, seqName)
                                ELSE @]
       /\ currentConns' = [currentConns EXCEPT
                              ![1] = IF exists THEN @ - 1 ELSE @]
       /\ seqPc' = pcAfter
       /\ SeqUnchanged

SeqRemovePlayer ==
    /\ seqPc = "attached"
    /\ RemovePlayer("detached")

SeqRemovePlayerAgain ==
    /\ seqPc = "detached"
    /\ RemovePlayer("done")

NextAttach ==
    \/ SeqAddPlayer
    \/ SeqRemovePlayer
    \/ SeqRemovePlayerAgain

SpecAttach == InitAttach /\ [][NextAttach]_vars

(* ------------------------------------------------- Select from any pool *)

\* the Dial slots at their starting points, nothing observed yet
InitIdle ==
    /\ connPc = [c \in Conns |-> "idle"]
    /\ connBackend = [c \in Conns |-> 1]
    /\ connName = [c \in Conns |-> 0]
    /\ connAvail = [c \in Conns |-> {}]
    /\ connCounter = [c \in Conns |-> 0]
    /\ closeOnce = [c \in Conns |-> FALSE]
    /\ closePc = [c \in Conns |-> "none"]
    /\ closeExists = [c \in Conns |-> FALSE]
    /\ closeCalls = [c \in Conns |-> 0]
    /\ hcPc = "idle"
    /\ hcIdx = 1
    /\ wasUnhealthy = FALSE
    /\ probeFails = [b \in Backends |-> 0]
    /\ probeSuccs = [b \in Backends |-> 0]
    /\ decs = [c \in Conns |-> 0]
    /\ removals = [c \in Conns |-> 0]
    /\ recorded = [b \in Backends |-> <<>>]
    /\ seqPc = "off"
    /\ seqName = 0
    /\ seqBefore = 0

\* statistics of a period in which the backend answered in twice the time
SlowHistory ==
    [Samples |-> minSamplesForUse, AvgLatency |-> 2 * MeasuredLatency * Scale,
     AvgJitter |-> 0]

\* the statistics a backend may have for the current period when a run
\* starts
Histories == {NoHistory, SlowHistory}

\* the latency windows of the pools of SpecSelect
SelectWindows == {<<>>, <<MeasuredLatency>>}

\* a pool of any number of backends, each in any state of health, admin
\* switch, capacity and load, under any of the five strategies, when Dials
\* start
InitSelect ==
    /\ InitOther
    /\ InitIdle
    /\ strategy \in AllStrategies
    /\ \E k \in 0..NumBackends : backends = 1..k
    /\ healthy \in [Backends -> BOOLEAN]
    /\ disabled \in [Backends -> BOOLEAN]
    /\ maxConnections \in [Backends -> Caps]
    /\ currentConns \in [Backends -> 0..MaxInitConns]
    /\ latencyWindow \in [Backends -> SelectWindows]
    /\ \A b \in Backends \ backends :
          /\ healthy[b] /\ ~disabled[b]
          /\ maxConnections[b] = 0 /\ currentConns[b] = 0
          /\ latencyWindow[b] = <<>>
    /\ players = [b \in Backends |->
                     IF currentConns[b] = 0 THEN {} ELSE {0}]
    /\ failCount = [b \in Backends |-> 0]
    /\ successCount = [b \in Backends |-> 0]
    /\ trustCoeff = [b \in Backends |-> 100]
    /\ lastCheckTime = [b \in Backends |-> 0]
    /\ windowSize = WindowSize
    /\ history \in (IF strategy = "health-score"
                     THEN {[b \in Backends |-> h] : h \in Histories}
                     ELSE {[b \in Backends |-> NoHistory]})
    /\ counter \in (IF strategy = "round-robin" THEN 0..MaxInitCounter
                     ELSE {0})

\* the Select step of concurrent Dials
NextSelect ==
    \/ \E c \in Conns : DialNoBackend(c)
    \/ \E c \in Conns : DialSelect(c)
    \/ \E c \in Conns : RoundRobinFilter(c)
    \/ \E c \in Conns : RoundRobinAdd(c)

SpecSelect == InitSelect /\ [][NextSelect]_vars

(* ------------------------------------ health-score Select from any pool *)

\* a full trend window whose recent quarter is slower by half
RisingWindow ==
    [i \in 1..minTrendSamples |->
        IF i <= minTrendSamples - minTrendSamples \div 4 THEN MeasuredLatency
        ELSE MeasuredLatency + MeasuredLatency \div 2]

\* the latency windows of the pools of SpecScore
ScoreWindows ==
    {<<>>, <<MeasuredLatency>>, <<MeasuredLatency + 1>>,
     <<MeasuredLatency, MeasuredLatency + 1>>, RisingWindow}

\* a health-score pool of healthy, enabled backends, each with any capacity,
\* load, latency window, failure streak, trust and statistics
InitScore ==
    /\ InitOther
    /\ InitIdle
    /\ strategy = "health-score"
    /\ backends = Backends
    /\ healthy = [b \in Backends |-> TRUE]
    /\ disabled = [b \in Backends |-> FALSE]
    /\ maxConnections \in [Backends -> Caps]
    /\ currentConns \in [Backends -> 0..MaxInitConns]
    /\ latencyWindow \in [Backends -> ScoreWindows]
    /\ failCount \in [Backends -> 0..1]
    /\ trustCoeff \in [Backends -> {ResetTrust, 100}]
    /\ history \in [Backends -> Histories]
    /\ players = [b \in Backends |->
                     IF currentConns[b] = 0 THEN {} ELSE {0}]
    /\ successCount = [b \in Backends |-> 0]
    /\ lastCheckTime = [b \in Backends |-> ProbeTime]
    /\ windowSize = minTrendSamples
    /\ counter = 0

\* the Select step of one Dial
NextScore ==
    \/ DialNoBackend(1)
    \/ DialSelect(1)

SpecScore == InitScore /\ [][NextScore]_vars

(* ------------------------------------------ recordings into one window *)

\* a new backend of any window capacity >= 1
InitWindow ==
    /\ InitOther
    /\ InitState
    /\ InitNoPlayers
    /\ backends = {1}
    /\ windowSize \in 1..MaxWindowSize
    /\ history = [b \in Backends |-> NoHistory]

\* Backend.RecordLatency(ms) on backend 1, any ms
RecordLatencyCall ==
    /\ Len(recorded[1]) < MaxRecordings
    /\ ~RecordLatencyPanics(latencyWindow[1], windowSize)
    /\ \E ms \in Latencies :
          /\ latencyWindow' =
                [latencyWindow EXCEPT
                    ![1] = RecordLatency(@, ms, windowSize)]
          /\ recorded' = [recorded EXCEPT ![1] = Append(@, ms)]
    /\ UNCHANGED <<currentConns, failCount, successCount, healthy, disabled,
                   trustCoeff, players, lastCheckTime, poolVars, otherVars,
                   connVars, closeVars, hcVars, probeFails, probeSuccs, decs,
                   tickVars,
                   removals, seqVars, counter, history>>
    /\ StatsObserve

NextWindow == RecordLatencyCall

SpecWindow == InitWindow /\ [][NextWindow]_vars

(* ------------------------------------------- HistoryManager (SQLite store) *)

\* BackendHistory.PeriodStats: the 96 periods of a day
Periods == 0..95

\* getPeriodIndex at the local time t = <<hour, minute>>
getPeriodIndexOfHour(t) == t[1] * 4

getPeriodIndex(t) == t[1] * 4 + t[2] \div 15

\* Record, line 154-164: hm.cache[a], or the BackendHistory made for an
\* address not in the cache
CacheOf(a) ==
    IF DOMAIN cache[a] = {} THEN [p \in Periods |-> NoHistory] ELSE cache[a]

\* HistoryManager.Record(a, latency, jitter) and its `go savePeriodStats`.
\* savePeriodStats reads the fields of *stats without hm.mu: a goroutine
\* started earlier for the same PeriodStats that has not read them yet may
\* read during this Record, each field before or after its assignment.
Record(a, latency, jitter) ==
    LET p == getPeriodIndex(now)
        old == CacheOf(a)[p]
        new == HistoryRecord(old, latency, jitter)
        racing == {i \in DOMAIN saves :
                      /\ saves[i].pc = "started"
                      /\ saves[i].addr = a /\ saves[i].period = p}
        torn == {[Samples |-> s, AvgLatency |-> l, AvgJitter |-> j] :
                    s \in {old.Samples, new.Samples},
                    l \in {old.AvgLatency, new.AvgLatency},
                    j \in {old.AvgJitter, new.AvgJitter}}
    IN /\ shutdownPc = "none"
       /\ Len(saves) < MaxRecords
       /\ old.Samples < MaxSamples
       /\ cache' = [cache EXCEPT ![a] = [CacheOf(a) EXCEPT ![p] = new]]
       /\ \E R \in SUBSET racing : \E rows \in [R -> torn] :
             saves' = Append(
                 [i \in DOMAIN saves |->
                     IF i \in R
                     THEN [saves[i] EXCEPT !.pc = "read", !.row = rows[i]]
                     ELSE saves[i]],
                 [addr |-> a, period |-> p, pc |-> "started",
                  row |-> NoHistory])
       /\ recorded' = [recorded EXCEPT ![a] = Append(@, <<latency, jitter>>)]
       /\ UNCHANGED <<backendVars, poolVars, connVars, closeVars, hcVars,
                      ghostVars, seqVars, counter, history, db, dbClosed,
                      now, histScore, lifeVars, callVars>>
       /\ StatsObserve

\* savePeriodStats, line 187-191: the arguments of Exec are evaluated
SavePeriodStatsArgs(i) ==
    /\ saves[i].pc = "started"
    /\ saves' = [saves EXCEPT
                    ![i].pc = "read",
                    ![i].row = cache[saves[i].addr][saves[i].period]]
    /\ UNCHANGED <<backendVars, poolVars, connVars, closeVars, hcVars,
                   ghostVars, seqVars, storeVars, cache, db, dbClosed, now,
                   histScore, lifeVars, callVars>>
    /\ StatsObserve

\* savePeriodStats, line 187: INSERT OR REPLACE runs; on a closed database
\* Exec returns an error, which is dropped
SavePeriodStatsExec(i) ==
    /\ saves[i].pc = "read"
    /\ LET k == <<saves[i].addr, saves[i].period>>
       IN IF dbClosed
          THEN /\ saves' = [saves EXCEPT ![i].pc = "failed"]
               /\ db' = db
          ELSE /\ saves' = [saves EXCEPT ![i].pc = "done"]
               /\ db' = [x \in DOMAIN db \cup {k} |->
                            IF x = k THEN saves[i].row ELSE db[x]]
    /\ UNCHANGED <<backendVars, poolVars, connVars, closeVars, hcVars,
                   ghostVars, seqVars, storeVars, cache, dbClosed, now,
                   histScore, lifeVars, callVars>>
    /\ StatsObserve

\* StartAutoSave, line 264-267: stopCh is closed, the goroutine runs
\* hm.Close(), which closes the database
StoreClose ==
    /\ stopCh
    /\ ~dbClosed
    /\ dbClosed' = TRUE
    /\ UNCHANGED <<backendVars, poolVars, connVars, closeVars, hcVars,
                   ghostVars, seqVars, storeVars, cache, db, saves, now,
                   histScore, lifeVars, callVars>>
    /\ StatsObserve

\* HistoryManager.HistoricalScore(a, currentLatency, currentJitter):
\* GetCurrentPeriodStats gives nil for an address not in the cache
HistoricalScoreCall(a, currentLatency, currentJitter) ==
    /\ histScore = <<>>
    /\ histScore' =
          [addr |-> a, period |-> getPeriodIndex(now),
           latency |-> currentLatency, jitter |-> currentJitter,
           score |-> IF DOMAIN cache[a] = {} THEN 0
                     ELSE HistoricalScore(cache[a][getPeriodIndex(now)],
                                          currentLatency, currentJitter)]
    /\ UNCHANGED <<backendVars, poolVars, connVars, closeVars, hcVars,
                   ghostVars, seqVars, storeVars, cache, db, dbClosed, saves,
                   now, lifeVars, callVars>>
    /\ StatsObserve

\* the local times of a run
Instants == {<<0, 14>>, <<9, 15>>, <<23, 59>>}

\* time passes
ClockAdvance ==
    /\ \E t \in Instants :
          /\ t[1] * 60 + t[2] > now[1] * 60 + now[2]
          /\ now' = t
    /\ UNCHANGED <<backendVars, poolVars, connVars, closeVars, hcVars,
                   ghostVars, seqVars, storeVars, cache, db, dbClosed, saves,
                   histScore, lifeVars, callVars>>
    /\ StatsObserve

(* ---------------------------------------------------- LoadBalancer.Shutdown *)

\* Shutdown, line 257: close(lb.stopCh)
ShutdownCloseStopCh ==
    /\ shutdownPc = "none"
    /\ stopCh' = TRUE
    /\ shutdownPc' = "stop-closed"
    /\ UNCHANGED <<backendVars, poolVars, connVars, closeVars, hcVars,
                   ghostVars, seqVars, storeVars, histVars, cancelled,
                   hcLoops, hcRecovered, callVars>>
    /\ StatsObserve

\* Shutdown, line 258: lb.cancel(); Shutdown returns
ShutdownCancel ==
    /\ shutdownPc = "stop-closed"
    /\ cancelled' = TRUE
    /\ shutdownPc' = "done"
    /\ UNCHANGED <<backendVars, poolVars, connVars, closeVars, hcVars,
                   ghostVars, seqVars, storeVars, histVars, stopCh, hcLoops,
                   hcRecovered, callVars>>
    /\ StatsObserve

(* ------------------------------- healthCheckLoop: panic, recover and stop *)

\* checkAllBackends, line 152-153, 168: MCPing succeeded; SetLastCheckTime;
\* backend.RecordLatency(latency) panics, and the panic unwinds
\* checkAllBackends and the for loop of healthCheckLoop
HCRecordLatencyPanic ==
    /\ hcPc = "ping"
    /\ RecordLatencyPanics(latencyWindow[hcIdx], windowSize)
    /\ lastCheckTime' = [lastCheckTime EXCEPT ![hcIdx] = ProbeTime]
    /\ hcPc' = "panicked"
    /\ hcLoops' = hcLoops - 1
    /\ UNCHANGED <<currentConns, failCount, successCount, healthy, disabled,
                   trustCoeff, players, latencyWindow, poolVars, connVars,
                   closeVars, hcIdx, wasUnhealthy, ghostVars, seqVars,
                   storeVars, histVars, stopCh, cancelled, shutdownPc,
                   hcRecovered, callVars>>
    /\ StatsObserve

\* a deferred function that logs the panic and starts no goroutine
HCRecoverNoRestart ==
    /\ hcPc = "panicked"
    /\ hcPc' = "stopped"
    /\ hcRecovered' = TRUE
    /\ UNCHANGED <<backendVars, poolVars, connVars, closeVars, hcIdx,
                   wasUnhealthy, ghostVars, seqVars, storeVars, histVars,
                   stopCh, cancelled, shutdownPc, hcLoops, callVars>>
    /\ StatsObserve

\* healthCheckLoop, line 119 and 107-112: the deferred ticker.Stop(), then
\* recover() returns the panic, it is logged and go lb.healthCheckLoop()
\* starts a new goroutine; the panicking goroutine ends
HCRecover ==
    /\ hcPc = "panicked"
    /\ hcPc' = "starting"
    /\ hcRecovered' = TRUE
    /\ UNCHANGED <<backendVars, poolVars, connVars, closeVars, hcIdx,
                   wasUnhealthy, ghostVars, seqVars, storeVars, histVars,
                   stopCh, cancelled, shutdownPc, hcLoops, callVars>>
    /\ StatsObserve

\* healthCheckLoop, line 114-123: the new goroutine makes its ticker and
\* enters the for loop
HCLoopStart ==
    /\ hcPc = "starting"
    /\ hcPc' = "idle"
    /\ hcIdx' = 1
    /\ hcLoops' = hcLoops + 1
    /\ UNCHANGED <<backendVars, poolVars, connVars, closeVars, wasUnhealthy,
                   ghostVars, seqVars, storeVars, histVars, stopCh,
                   cancelled, shutdownPc, hcRecovered, callVars>>
    /\ StatsObserve

\* healthCheckLoop, line 125-126: the select takes <-lb.ctx.Done() and the
\* loop returns (recover() returns nil, no restart)
HCStop ==
    /\ hcPc = "idle"
    /\ cancelled
    /\ hcPc' = "stopped"
    /\ hcLoops' = hcLoops - 1
    /\ UNCHANGED <<backendVars, poolVars, connVars, closeVars, hcIdx,
                   wasUnhealthy, ghostVars, seqVars, storeVars, histVars,
                   stopCh, cancelled, shutdownPc, hcRecovered, callVars>>
    /\ StatsObserve

\* Dial, line 75 or 85: backend.RecordLatency(latency) panics; nothing in
\* Dial recovers, so the call never returns to its caller
DialRecordLatencyPanic(c) ==
    /\ connPc[c] \in {"fail-latency", "ok-latency"}
    /\ RecordLatencyPanics(latencyWindow[connBackend[c]], windowSize)
    /\ connPc' = [connPc EXCEPT ![c] = "panicked"]
    /\ UNCHANGED <<backendVars, poolVars, otherVars, connBackend, connName,
                   connAvail, connCounter, closeVars, hcVars, ghostVars,
                   seqVars, storeVars>>
    /\ StatsObserve

(* ----------------------------------------------------------- SpecHistory *)

\* the rows table period_stats may hold when NewHistoryManager opens it:
\* none, or one row of the first backend for the period of 09:15
LoadedRows ==
    {[k \in {} |-> NoHistory]}
    \cup {[k \in {<<1, 37>>} |-> r] :
            r \in {[Samples |-> minSamplesForUse - 1,
                     AvgLatency |-> 50 * Scale, AvgJitter |-> 10 * Scale],
                    [Samples |-> 50, AvgLatency |-> 50 * Scale,
                     AvgJitter |-> 0]}}

\* loadFromDB: the cache gets a BackendHistory for every address with a row
LoadFromDB(rows) ==
    [a \in Backends |->
        IF \E k \in DOMAIN rows : k[1] = a
        THEN [p \in Periods |->
                 IF <<a, p>> \in DOMAIN rows THEN rows[<<a, p>>]
                 ELSE NoHistory]
        ELSE <<>>]

\* NewHistoryManager on any of the tables, at any of the times
InitHistory ==
    /\ InitState
    /\ InitNoPlayers
    /\ InitStarted
    /\ strategy = "sequential"
    /\ backends = Backends
    /\ windowSize = WindowSize
    /\ history = [b \in Backends |-> NoHistory]
    /\ db \in LoadedRows
    /\ cache = LoadFromDB(db)
    /\ dbClosed = FALSE
    /\ saves = <<>>
    /\ now \in Instants
    /\ histScore = <<>>

\* the cache: Record and HistoricalScore calls as time passes, with
\* latencies and jitters in units of 1/Scale ms
NextHistory ==
    \/ \E a \in Backends, l \in {25 * Scale, 80 * Scale},
          j \in {0, 20 * Scale} :
          Record(a, l, j)
    \/ \E a \in Backends, l \in {25 * Scale, 80 * Scale},
          j \in {5 * Scale, 20 * Scale} :
          HistoricalScoreCall(a, l, j)
    \/ ClockAdvance

SpecHistory == InitHistory /\ [][NextHistory]_vars

\* the table: Record calls, their savePeriodStats goroutines and Shutdown
NextStore ==
    \/ \E a \in Backends, l \in {25 * Scale, 80 * Scale},
          j \in {0, 20 * Scale} :
          Record(a, l, j)
    \/ \E i \in DOMAIN saves : SavePeriodStatsArgs(i)
    \/ \E i \in DOMAIN saves : SavePeriodStatsExec(i)
    \/ StoreClose
    \/ ShutdownCloseStopCh
    \/ ShutdownCancel

SpecStore == InitHistory /\ [][NextStore]_vars

(* -------------------------------------------------------------- SpecLoop *)

\* registerServer with HealthCheck.WindowSize 0 or 1: one backend
InitLoop ==
    /\ InitOther
    /\ InitState
    /\ InitNoPlayers
    /\ strategy = "sequential"
    /\ backends = 1..NumHealthBackends
    /\ windowSize \in {0, WindowSize}
    /\ history = [b \in Backends |-> LoadedHistory]

\* the health-check loop with its panics and restarts, the Dials of one
\* connection, and Shutdown
NextLoop ==
    \/ \E c \in HealthConns : DialNoBackend(c)
    \/ \E c \in HealthConns : DialSelect(c)
    \/ \E c \in HealthConns : DialFail(c)
    \/ \E c \in HealthConns : DialFailRecordLatency(c)
    \/ \E c \in HealthConns : DialSucceed(c)
    \/ \E c \in HealthConns : DialSucceedRecordLatency(c)
    \/ \E c \in HealthConns : DialRecordLatencyPanic(c)
    \/ \E c \in HealthConns : AddPlayerLock(c)
    \/ \E c \in HealthConns : AddPlayerInc(c)
    \/ HCTick
    \/ HCPing
    \/ HCProbeFail
    \/ HCFailCheck
    \/ HCSetUnhealthy
    \/ HCProbeOk
    \/ HCRecordLatencyPanic
    \/ HCRecover
    \/ HCLoopStart
    \/ HCStop
    \/ HCHistoryRecord
    \/ HCRecordSuccess
    \/ HCSetHealthy
    \/ HCResetTrust
    \/ HCResetSuccessCount
    \/ HCLogRecovered
    \/ HCIncreaseTrust
    \/ ShutdownCloseStopCh
    \/ ShutdownCancel

\* the goroutine scheduler runs every goroutine that can take a step, and
\* the ticker keeps firing
SpecLoop ==
    /\ InitLoop
    /\ [][NextLoop]_vars
    /\ WF_vars(HCRecover)
    /\ WF_vars(HCLoopStart)
    /\ WF_vars(HCTick)

(* ----------------------------------------------------------- SpecRecover *)

\* a step of the goroutine of healthCheckLoop: the ticker, checkAllBackends,
\* and the deferred recover with its restart
HCStep ==
    \/ HCTick
    \/ HCPing
    \/ HCProbeFail
    \/ HCFailCheck
    \/ HCSetUnhealthy
    \/ HCProbeOk
    \/ HCRecordLatencyPanic
    \/ HCRecover
    \/ HCLoopStart
    \/ HCHistoryRecord
    \/ HCRecordSuccess
    \/ HCSetHealthy
    \/ HCResetTrust
    \/ HCResetSuccessCount
    \/ HCLogRecovered
    \/ HCIncreaseTrust

\* the pool of SpecLoop; the ticker keeps firing and the goroutine of the
\* loop is scheduled whenever it can take a step
SpecRecover ==
    /\ InitLoop
    /\ [][NextLoop]_vars
    /\ WF_vars(HCStep)

(* -------------------------------------------------------------- SpecTick *)

\* registerServer: a pool of NumBackends backends, each enabled or disabled
\* by an earlier admin command, with the statistics of a long-running pool
InitTick ==
    /\ InitOther
    /\ InitIdle
    /\ InitNoPlayers
    /\ failCount = [b \in Backends |-> 0]
    /\ successCount = [b \in Backends |-> 0]
    /\ healthy = [b \in Backends |-> TRUE]
    /\ disabled \in [Backends -> BOOLEAN]
    /\ trustCoeff = [b \in Backends |-> 100]
    /\ latencyWindow = [b \in Backends |-> <<>>]
    /\ lastCheckTime = [b \in Backends |-> 0]
    /\ strategy = "sequential"
    /\ counter = 0
    /\ maxConnections = MaxConnections
    /\ backends = 1..NumBackends
    /\ windowSize = WindowSize
    /\ history = [b \in Backends |-> LoadedHistory]

\* the ticks of the health check, none of which panics, while admins
\* disable and enable backends
NextTick ==
    \/ HCTick
    \/ HCSkipDisabled
    \/ HCPing
    \/ HCProbeFail
    \/ HCFailCheck
    \/ HCSetUnhealthy
    \/ HCProbeOk
    \/ HCHistoryRecord
    \/ HCRecordSuccess
    \/ HCSetHealthy
    \/ HCResetTrust
    \/ HCResetSuccessCount
    \/ HCLogRecovered
    \/ HCIncreaseTrust
    \/ \E b \in backends : DisableBackend(b)
    \/ \E b \in backends : EnableBackend(b)

SpecTick == InitTick /\ [][NextTick]_vars

(* ------------------------------------------------------------- SpecAdmin *)

\* a pool of any number of backends, each in any state of health, admin
\* switch, capacity and load
InitAdmin == InitSelect /\ strategy = "sequential"

\* the admin's two commands on any pool, while one Dial is on its way
NextAdmin ==
    \/ \E c \in HealthConns : adminPc = "off" /\ DialNoBackend(c)
    \/ \E c \in HealthConns : adminPc = "off" /\ DialSelect(c)
    \/ \E c \in HealthConns : adminPc = "off" /\ DialSucceed(c)
    \/ \E c \in HealthConns :
          adminPc = "off" /\ DialSucceedRecordLatency(c)
    \/ \E c \in HealthConns : adminPc = "off" /\ AddPlayerLock(c)
    \/ \E c \in HealthConns : adminPc = "off" /\ AddPlayerInc(c)
    \/ \E a \in Backends : DisableBackendCall(a)
    \/ EnableBackendCall

SpecAdmin == InitAdmin /\ [][NextAdmin]_vars

(* ------------------------------------------------------------- SpecStats *)

\* registerServer: a pool of one backend
InitStats == InitHealth /\ strategy = "sequential"

\* one Stats() call on the backend of a pool of one, while a connection is
\* dialled and closed and an admin disables and enables the backend
NextStats ==
    \/ \E c \in HealthConns : DialNoBackend(c)
    \/ \E c \in HealthConns : DialSelect(c)
    \/ \E c \in HealthConns : DialFail(c)
    \/ \E c \in HealthConns : DialFailRecordLatency(c)
    \/ \E c \in HealthConns : DialSucceed(c)
    \/ \E c \in HealthConns : DialSucceedRecordLatency(c)
    \/ \E c \in HealthConns : AddPlayerLock(c)
    \/ \E c \in HealthConns : AddPlayerInc(c)
    \/ \E c \in HealthConns : CloseFirst(c)
    \/ \E c \in HealthConns : CloseDec(c)
    \/ \E b \in backends : DisableBackend(b)
    \/ \E b \in backends : EnableBackend(b)
    \/ StatsCall
    \/ StatsRead

SpecStats == InitStats /\ [][NextStats]_vars

(* --------------------------- health-score Select, loop by loop; /lb status *)

\* HealthScoreStrategy.Select, line 64-88: filterAvailable, then the loop
\* that finds minLatency and minJitter (1 when no backend has a positive
\* value)
HealthScoreMin(c) ==
    /\ DialReady(c)
    /\ strategy = "health-score"
    /\ filterAvailable # {}
    /\ connAvail' = [connAvail EXCEPT ![c] = filterAvailable]
    /\ connMin' =
          [connMin EXCEPT
              ![c] = <<MinPositive({AvgLatency(latencyWindow[o]) :
                                      o \in filterAvailable}),
                       MinPositive({Jitter(latencyWindow[o]) :
                                      o \in filterAvailable})>>]
    /\ \E n \in Names : connName' = [connName EXCEPT ![c] = n]
    /\ connPc' = [connPc EXCEPT ![c] = "hs-score"]
    /\ UNCHANGED <<backendVars, poolVars, histVars, lifeVars, statsPc,
                   statsResult, adminPc, adminTarget, adminBefore,
                   adminResult, shown, subVars, closeVars, hcVars, ghostVars,
                   seqVars,
                   connBackend, connCounter, storeVars>>
    /\ StatsObserve

\* HealthScoreStrategy.Select, line 90-107: the loop that scores the
\* available backends with the windows as they are now and keeps the first
\* of the highest score above bestScore := -1; Dial goes on to the connect,
\* or returns "no available backend" when Select returned nil
HealthScoreBest(c) ==
    /\ connPc[c] = "hs-score"
    /\ LET score(b) ==
               RelativeHealthScore(b, connMin[c][1], connMin[c][2])
               + HistoricalScore(history[b], AvgLatency(latencyWindow[b]),
                                 Jitter(latencyWindow[b]))
           best == {b \in connAvail[c] :
                      /\ score(b) > 0 - 1
                      /\ \A o \in connAvail[c] :
                            /\ score(o) <= score(b)
                            /\ (o < b => score(o) < score(b))}
       IN IF best = {}
          THEN /\ connPc' = [connPc EXCEPT ![c] = "no-backend"]
               /\ UNCHANGED connBackend
          ELSE /\ connPc' = [connPc EXCEPT ![c] = "connect"]
               /\ \E b \in best :
                     connBackend' = [connBackend EXCEPT ![c] = b]
    /\ UNCHANGED <<backendVars, poolVars, otherVars, closeVars, hcVars,
                   ghostVars, seqVars, connName, connAvail, connCounter,
                   storeVars>>
    /\ StatsObserve

\* cmdLBStatus, line 489-495: the score shown for backend b is
\* b.HealthScore(JitterThreshold)
cmdLBStatus(b) ==
    /\ shown' = [addr |-> b, score |-> HealthScore(b)]
    /\ UNCHANGED <<backendVars, poolVars, connVars, closeVars, hcVars,
                   ghostVars, seqVars, storeVars, histVars, lifeVars,
                   statsPc, statsResult, adminPc, adminTarget, adminBefore,
                   adminResult, connMin, subVars>>
    /\ StatsObserve

\* a health-score pool of one or two healthy, enabled, empty, unbounded
\* backends; the first with or without a sample of 1 ms, freshly recovered
\* or trusted, with no statistics or those of a period of 1 ms pings with
\* 1 ms of jitter; the second new
InitBest ==
    /\ InitOther
    /\ InitIdle
    /\ strategy = "health-score"
    /\ \E k \in 1..NumBackends : backends = 1..k
    /\ healthy = [b \in Backends |-> TRUE]
    /\ disabled = [b \in Backends |-> FALSE]
    /\ maxConnections = [b \in Backends |-> 0]
    /\ currentConns = [b \in Backends |-> 0]
    /\ players = [b \in Backends |-> {}]
    /\ \E w \in {<<>>, <<1>>} :
          latencyWindow = [b \in Backends |-> IF b = 1 THEN w ELSE <<>>]
    /\ failCount = [b \in Backends |-> 0]
    /\ \E t \in {ResetTrust, 100} :
          trustCoeff = [b \in Backends |-> IF b = 1 THEN t ELSE 100]
    /\ \E h \in {NoHistory,
                  [Samples |-> minSamplesForUse, AvgLatency |-> Scale,
                   AvgJitter |-> Scale]} :
          history = [b \in Backends |-> IF b = 1 THEN h ELSE NoHistory]
    /\ successCount = [b \in Backends |-> 0]
    /\ lastCheckTime = [b \in Backends |-> ProbeTime]
    /\ windowSize = 2
    /\ counter = 0

\* the Select of one Dial while the connect of another Dial fails, and
\* /lb status
NextBest ==
    \/ HealthScoreMin(1)
    \/ HealthScoreBest(1)
    \/ DialSelect(2)
    \/ DialFail(2)
    \/ DialFailRecordLatency(2)
    \/ \E b \in backends : cmdLBStatus(b)

SpecBest == InitBest /\ [][NextBest]_vars

(* ------------------------------------- dynamicserver.Manager: idle shutdown *)

\* what the Manager's steps leave alone
LBUnchanged ==
    UNCHANGED <<backendVars, poolVars, connVars, closeVars, hcVars, ghostVars,
                seqVars, storeVars, histVars, lifeVars, statsPc, statsResult,
                statsSeen, adminPc, adminTarget, adminBefore, adminResult,
                connMin, shown>>

\* what the steps of the idle shutdown leave alone
ShutdownOthers == LBUnchanged /\ UNCHANGED <<startVars, permVars, pingVars, jsonVars>>

\* ShutdownConfig.IsInProtectionPeriod
IsInProtectionPeriod == mgrNow < mgrCfg.protectionEnd

\* IsAutoShutdownEnabled: cfg == nil || cfg.IsEnabled()
IsAutoShutdownEnabled == ~mgrCfg.present \/ mgrCfg.enabled

\* timer.Stop(): a timer that has not fired will not fire
TimerStop(t) == IF t.state = "pending" THEN [t EXCEPT !.state = "stopped"] ELSE t

\* cancelShutdown, under m.mu: the timer of the map is stopped and its
\* entry deleted
cancelShutdown ==
    /\ mgrTimers' = IF mgrMap # 0
                    THEN [mgrTimers EXCEPT ![mgrMap] = TimerStop(@)]
                    ELSE mgrTimers
    /\ mgrMap' = 0

\* time passes
TimePasses ==
    /\ mgrNow < MaxTime
    /\ mgrNow' = mgrNow + 1
    /\ UNCHANGED <<mgrCfg, mgrTimers, mgrMap, mgrPlayers, idlePc, idleTimer,
                   mgrPc, mgrArg, stops, offReturned, delayReturned>>
    /\ ShutdownOthers

\* a player joins the server, or the last one leaves
PlayersChange ==
    /\ mgrPlayers' = 1 - mgrPlayers
    /\ UNCHANGED <<mgrNow, mgrCfg, mgrTimers, mgrMap, idlePc, idleTimer,
                   mgrPc, mgrArg, stops, offReturned, delayReturned>>
    /\ ShutdownOthers

\* the frame of a step of the goroutine of periodicIdleCheck
IdleFrame ==
    /\ UNCHANGED <<mgrNow, mgrCfg, mgrPlayers, mgrPc, mgrArg, stops,
                   offReturned, delayReturned>>
    /\ ShutdownOthers

\* periodicIdleCheck and checkAllAutoStartServersIdle, step by step:
\* line 272-273, the ticker fires; line 280-287, a server in its protection
\* period is passed by; line 294-299, playerCount == 0 leads to
\* scheduleShutdown, else to cancelShutdown; line 298, cancelShutdown
checkAllAutoStartServersIdle ==
    \/ /\ idlePc = "idle"
       /\ idlePc' = "protect"
       /\ UNCHANGED <<mgrTimers, mgrMap, idleTimer>>
       /\ IdleFrame
    \/ /\ idlePc = "protect"
       /\ idlePc' = IF mgrCfg.present /\ IsInProtectionPeriod
                    THEN "idle" ELSE "players"
       /\ UNCHANGED <<mgrTimers, mgrMap, idleTimer>>
       /\ IdleFrame
    \/ /\ idlePc = "players"
       /\ idlePc' = IF mgrPlayers = 0 THEN "enabled" ELSE "cancel"
       /\ UNCHANGED <<mgrTimers, mgrMap, idleTimer>>
       /\ IdleFrame
    \/ /\ idlePc = "cancel"
       /\ cancelShutdown
       /\ idlePc' = "idle"
       /\ UNCHANGED idleTimer
       /\ IdleFrame

\* scheduleShutdown, step by step: line 304-313, disabled auto-shutdown ends
\* the call (the server has a UUID); line 315-321, a timer in the map ends
\* the call; line 323-327, GetInstanceStatus, where an instance that is not
\* running (or an error) ends the call; line 331, time.AfterFunc; line
\* 357-359, m.shutdownTimers[serverName] = timer
scheduleShutdown ==
    \/ /\ idlePc = "enabled"
       /\ idlePc' = IF IsAutoShutdownEnabled THEN "map" ELSE "idle"
       /\ UNCHANGED <<mgrTimers, mgrMap, idleTimer>>
       /\ IdleFrame
    \/ /\ idlePc = "map"
       /\ idlePc' = IF mgrMap # 0 THEN "idle" ELSE "status"
       /\ UNCHANGED <<mgrTimers, mgrMap, idleTimer>>
       /\ IdleFrame
    \/ /\ idlePc = "status"
       /\ \E running \in BOOLEAN :
             idlePc' = IF running THEN "create" ELSE "idle"
       /\ UNCHANGED <<mgrTimers, mgrMap, idleTimer>>
       /\ IdleFrame
    \/ /\ idlePc = "create"
       /\ Len(mgrTimers) < MaxTimers
       /\ mgrTimers' = Append(mgrTimers,
                              [state |-> "pending",
                               due |-> mgrNow + IdleShutdownSeconds])
       /\ idleTimer' = Len(mgrTimers) + 1
       /\ idlePc' = "store"
       /\ UNCHANGED mgrMap
       /\ IdleFrame
    \/ /\ idlePc = "store"
       /\ mgrMap' = idleTimer
       /\ idlePc' = "idle"
       /\ UNCHANGED <<mgrTimers, idleTimer>>
       /\ IdleFrame

\* the frame of a step of a timer's callback
TimerFrame ==
    /\ UNCHANGED <<mgrNow, mgrCfg, mgrPlayers, idlePc, idleTimer, mgrPc,
                   mgrArg, offReturned, delayReturned>>
    /\ ShutdownOthers

\* the function given to time.AfterFunc, step by step: the runtime starts
\* the callback of a timer that is due; line 332-334,
\* delete(m.shutdownTimers, serverName); line 341-345, players online end
\* the callback; line 349, m.mcs.StopInstance sends the stop command
AfterFunc(i) ==
    \/ /\ mgrTimers[i].state = "pending"
       /\ mgrNow >= mgrTimers[i].due
       /\ mgrTimers' = [mgrTimers EXCEPT ![i].state = "delete"]
       /\ UNCHANGED <<mgrMap, stops>>
       /\ TimerFrame
    \/ /\ mgrTimers[i].state = "delete"
       /\ mgrMap' = 0
       /\ mgrTimers' = [mgrTimers EXCEPT ![i].state = "players"]
       /\ UNCHANGED stops
       /\ TimerFrame
    \/ /\ mgrTimers[i].state = "players"
       /\ mgrTimers' =
             [mgrTimers EXCEPT
                 ![i].state = IF mgrPlayers > 0 THEN "done" ELSE "stop"]
       /\ UNCHANGED <<mgrMap, stops>>
       /\ TimerFrame
    \/ /\ mgrTimers[i].state = "stop"
       /\ stops' = stops + 1
       /\ mgrTimers' = [mgrTimers EXCEPT ![i].state = "done"]
       /\ UNCHANGED mgrMap
       /\ TimerFrame

\* the frame of a step of an admin call
CallFrame ==
    /\ UNCHANGED <<mgrNow, mgrPlayers, idlePc, idleTimer, stops>>
    /\ ShutdownOthers

\* line 402-408 and 374-380: the server's configuration, made if missing
ConfigOf == IF mgrCfg.present THEN mgrCfg ELSE NewShutdownConfig

\* SetAutoShutdownEnabled(server, enabled), step by step: line 402-408, the
\* configuration; line 410-418, cfg.SetEnabled(enabled), after which
\* enabling returns; line 413, m.cancelShutdown(serverName); line 414-415,
\* cfg.ClearProtection(), and the call returns
SetAutoShutdownEnabled ==
    \/ /\ mgrPc = "off"
       /\ \E enabled \in BOOLEAN :
             /\ mgrArg' = IF enabled THEN 1 ELSE 0
             /\ offReturned' = (offReturned /\ ~enabled)
             /\ delayReturned' = (delayReturned /\ enabled)
       /\ mgrCfg' = ConfigOf
       /\ mgrPc' = "set-enabled"
       /\ UNCHANGED <<mgrTimers, mgrMap>>
       /\ CallFrame
    \/ /\ mgrPc = "set-enabled"
       /\ mgrCfg' = [mgrCfg EXCEPT !.enabled = (mgrArg = 1)]
       /\ mgrPc' = IF mgrArg = 1 THEN "off" ELSE "off-cancel"
       /\ UNCHANGED <<mgrTimers, mgrMap, mgrArg, offReturned, delayReturned>>
       /\ CallFrame
    \/ /\ mgrPc = "off-cancel"
       /\ cancelShutdown
       /\ mgrPc' = "off-clear"
       /\ UNCHANGED <<mgrCfg, mgrArg, offReturned, delayReturned>>
       /\ CallFrame
    \/ /\ mgrPc = "off-clear"
       /\ mgrCfg' = [mgrCfg EXCEPT !.protectionEnd = 0]
       /\ mgrPc' = "off"
       /\ offReturned' = TRUE
       /\ UNCHANGED <<mgrTimers, mgrMap, mgrArg, delayReturned>>
       /\ CallFrame

\* SetShutdownDelay(server, d), step by step: line 374-380, the
\* configuration; line 382-383, cfg.SetProtectionEndTime(now + d); line
\* 385-387, m.cancelShutdown(serverName), and the call returns
SetShutdownDelay(d) ==
    \/ /\ mgrPc = "off"
       /\ mgrCfg' = ConfigOf
       /\ mgrPc' = "delay-set"
       /\ mgrArg' = d
       /\ delayReturned' = FALSE
       /\ UNCHANGED <<mgrTimers, mgrMap, offReturned>>
       /\ CallFrame
    \/ /\ mgrPc = "delay-set"
       /\ mgrCfg' = [mgrCfg EXCEPT !.protectionEnd = mgrNow + mgrArg]
       /\ mgrPc' = "delay-cancel"
       /\ UNCHANGED <<mgrTimers, mgrMap, mgrArg, offReturned, delayReturned>>
       /\ CallFrame
    \/ /\ mgrPc = "delay-cancel"
       /\ cancelShutdown
       /\ mgrPc' = "off"
       /\ delayReturned' = TRUE
       /\ UNCHANGED <<mgrCfg, mgrArg, offReturned>>
       /\ CallFrame

\* ClearProtectionPeriod, line 391-398
ClearProtectionPeriod ==
    /\ mgrPc = "off"
    /\ mgrCfg' = IF mgrCfg.present
                 THEN [mgrCfg EXCEPT !.protectionEnd = 0] ELSE mgrCfg
    /\ delayReturned' = FALSE
    /\ UNCHANGED <<mgrTimers, mgrMap, mgrPc, mgrArg, offReturned>>
    /\ CallFrame

\* the periodic idle check, the timers it creates and the admin's calls
NextShutdown ==
    \/ TimePasses
    \/ PlayersChange
    \/ checkAllAutoStartServersIdle
    \/ scheduleShutdown
    \/ \E i \in DOMAIN mgrTimers : AfterFunc(i)
    \/ SetAutoShutdownEnabled
    \/ SetShutdownDelay(DelaySeconds)
    \/ ClearProtectionPeriod

\* NewManager beside a load balancer that takes no step
InitShutdown == Init /\ strategy = "sequential"

SpecShutdown == InitShutdown /\ [][NextShutdown]_vars

(* -------------------------------- dynamicserver.Manager: EnsureServerRunning *)

\* a lookup that finds no entry
StartingEntryNone == Min(startMap, 0)

\* EnsureServerRunning, line 109: m.startingServers[serverName] (0: !ok)
StartingEntry == startMap

\* IsServerStarting
IsServerStarting == startMap # 0

\* the caller is the one that runs the start (line 115-150 and the deferred
\* function)
Leading(k) ==
    callPc[k] \in {"start", "in-flight", "ready", "close", "delete"}

\* what the steps of EnsureServerRunning leave alone
StartOthers == LBUnchanged /\ UNCHANGED <<mgrVars, permVars, pingVars, jsonVars>>

\* EnsureServerRunning by caller k, step by step: line 108-117, under m.mu,
\* the entry found or made; line 111-112, <-s.done and return s.result;
\* line 128-135, the StartInstance request is sent (no UUID: result false);
\* line 135-140, its answer; line 142-150, waitForServerReady and the
\* result; line 120, close(s.done); line 121-123, the entry is deleted and
\* the call returns
EnsureServerRunning(k) ==
    \/ /\ callPc[k] \in {"idle", "returned"}
       /\ IF StartingEntry # 0
          THEN /\ callEntry' = [callEntry EXCEPT ![k] = StartingEntry]
               /\ callPc' = [callPc EXCEPT ![k] = "wait"]
               /\ UNCHANGED <<starts, startMap>>
          ELSE /\ Len(starts) < MaxStarts
               /\ starts' = Append(starts, [done |-> FALSE, result |-> FALSE])
               /\ startMap' = Len(starts) + 1
               /\ callEntry' = [callEntry EXCEPT ![k] = Len(starts) + 1]
               /\ callPc' = [callPc EXCEPT ![k] = "start"]
       /\ UNCHANGED callResult
       /\ StartOthers
    \/ /\ callPc[k] = "wait"
       /\ starts[callEntry[k]].done
       /\ callResult' = [callResult EXCEPT ![k] = starts[callEntry[k]].result]
       /\ callPc' = [callPc EXCEPT ![k] = "returned"]
       /\ UNCHANGED <<starts, startMap, callEntry>>
       /\ StartOthers
    \/ /\ callPc[k] = "start"
       /\ \E uuid \in BOOLEAN :
             callPc' = [callPc EXCEPT
                           ![k] = IF uuid THEN "in-flight" ELSE "close"]
       /\ UNCHANGED <<starts, startMap, callEntry, callResult>>
       /\ StartOthers
    \/ /\ callPc[k] = "in-flight"
       /\ \E started \in BOOLEAN :
             callPc' = [callPc EXCEPT
                           ![k] = IF started THEN "ready" ELSE "close"]
       /\ UNCHANGED <<starts, startMap, callEntry, callResult>>
       /\ StartOthers
    \/ /\ callPc[k] = "ready"
       /\ \E ready \in BOOLEAN :
             starts' = [starts EXCEPT ![callEntry[k]].result = ready]
       /\ callPc' = [callPc EXCEPT ![k] = "close"]
       /\ UNCHANGED <<startMap, callEntry, callResult>>
       /\ StartOthers
    \/ /\ callPc[k] = "close"
       /\ starts' = [starts EXCEPT ![callEntry[k]].done = TRUE]
       /\ callPc' = [callPc EXCEPT ![k] = "delete"]
       /\ UNCHANGED <<startMap, callEntry, callResult>>
       /\ StartOthers
    \/ /\ callPc[k] = "delete"
       /\ startMap' = 0
       /\ callResult' = [callResult EXCEPT ![k] = starts[callEntry[k]].result]
       /\ callPc' = [callPc EXCEPT ![k] = "returned"]
       /\ UNCHANGED <<starts, callEntry>>
       /\ StartOthers

\* the callers of EnsureServerRunning
NextStart == \E k \in Callers : EnsureServerRunning(k)

SpecStart == InitShutdown /\ [][NextStart]_vars

(* ------------------------------------------------------ permission.Manager *)

\* the (lower-case) user names, the levels the permission API reports, and
\* the command lines
Users == 1..NumUsers
Levels == {0, LevelAdmin, LevelAdmin + 1}
Commands ==
    {<<>>, <<"S">>, <<"x">>, <<"/", "s">>, <<"/", "/", "x">>,
     <<" ", "s", " ">>, <<"x", " ", "s">>, <<"s", "x">>}

\* the configured adminCommands
AdminCommands == {<<"S">>, <<"/", "x">>}

\* strings.ToLower
ToLowerChar(ch) == IF ch = "S" THEN "s" ELSE ch
ToLower(str) == [i \in DOMAIN str |-> ToLowerChar(str[i])]

\* strings.TrimPrefix(cmd, "/")
TrimSlash(str) ==
    IF Len(str) > 0 /\ str[1] = "/" THEN SubSeq(str, 2, Len(str)) ELSE str

\* strings.Fields(str)[0]: the first run of characters other than white
\* space (<<>>: there is none)
FirstField(str) ==
    LET starts0 == {i \in DOMAIN str : str[i] # " "}
    IN IF starts0 = {} THEN <<>>
       ELSE LET from == CHOOSE i \in starts0 : \A j \in starts0 : i <= j
                ends == {i \in from..Len(str) :
                            \A j \in from..i : str[j] # " "}
                to == CHOOSE i \in ends : \A j \in ends : j <= i
            IN SubSeq(str, from, to)

\* IsAdminCommand
IsAdminCommand(cmd) ==
    LET cmdName == FirstField(ToLower(TrimSlash(cmd)))
    IN cmdName # <<>> /\ \E adminCmd \in AdminCommands : ToLower(adminCmd) = cmdName

\* a level that counts as admin from LevelAdmin on
IsAdminFrom(level) == level >= LevelAdmin

\* IsAdmin: GetPermissionLevel(...) > LevelAdmin
IsAdmin(level) == level > LevelAdmin

\* p.cache[name]: the zero value for a name that is not in the map
CacheLevel(u) == IF u \in DOMAIN permCache THEN permCache[u] ELSE 0

\* what the steps of the permission manager leave alone
PermOthers == LBUnchanged /\ UNCHANGED <<mgrVars, startVars, pingVars, jsonVars>>

\* the cache's time to live runs out
CacheExpires ==
    /\ ~permExpired
    /\ permExpired' = TRUE
    /\ UNCHANGED <<permCache, permPc, permUser, permCmd, permLevel,
                   permExists, permAllowed, permFetches, permFailed>>
    /\ PermOthers

\* onCommandExecute and CanExecute, line 127-132: a command that is not an
\* admin command is allowed at once; else IsAdmin calls GetPermissionLevel
CanExecute(k) ==
    /\ permPc[k] \in {"idle", "done"}
    /\ \E u \in Users, cmd \in Commands :
          /\ permUser' = [permUser EXCEPT ![k] = u]
          /\ permCmd' = [permCmd EXCEPT ![k] = cmd]
          /\ IF IsAdminCommand(cmd)
             THEN /\ permPc' = [permPc EXCEPT ![k] = "read"]
                  /\ UNCHANGED permAllowed
             ELSE /\ permPc' = [permPc EXCEPT ![k] = "done"]
                  /\ permAllowed' = [permAllowed EXCEPT ![k] = TRUE]
    /\ permLevel' = [permLevel EXCEPT ![k] = 0]
    /\ permExists' = [permExists EXCEPT ![k] = FALSE]
    /\ permFetches' = [permFetches EXCEPT ![k] = 0]
    /\ permFailed' = [permFailed EXCEPT ![k] = FALSE]
    /\ UNCHANGED <<permCache, permExpired>>
    /\ PermOthers

\* GetPermissionLevel, step by step: line 85-90, expired, level and exists
\* under the read lock; line 91-97 and fetchPermissions, where the request
\* fails (the cached level or 0 is returned), or is answered with
\* success=false, or refreshes the cache; line 99-104, the level of the
\* cache is read again and returned to IsAdmin
GetPermissionLevel(k) ==
    \/ /\ permPc[k] = "read"
       /\ permLevel' = [permLevel EXCEPT ![k] = CacheLevel(permUser[k])]
       /\ permExists' = [permExists EXCEPT
                            ![k] = permUser[k] \in DOMAIN permCache]
       /\ IF permExpired \/ permUser[k] \notin DOMAIN permCache
          THEN /\ permPc' = [permPc EXCEPT ![k] = "fetch"]
               /\ UNCHANGED permAllowed
          ELSE /\ permPc' = [permPc EXCEPT ![k] = "done"]
               /\ permAllowed' =
                     [permAllowed EXCEPT
                         ![k] = IsAdmin(CacheLevel(permUser[k]))]
       /\ UNCHANGED <<permCache, permExpired, permUser, permCmd,
                      permFetches, permFailed>>
       /\ PermOthers
    \/ /\ permPc[k] = "fetch"
       /\ permFetches' = [permFetches EXCEPT ![k] = @ + 1]
       /\ permFailed' = [permFailed EXCEPT ![k] = TRUE]
       /\ permPc' = [permPc EXCEPT ![k] = "done"]
       /\ permLevel' = [permLevel EXCEPT
                           ![k] = IF permExists[k] THEN @ ELSE 0]
       /\ permAllowed' =
             [permAllowed EXCEPT
                 ![k] = IsAdmin(IF permExists[k] THEN permLevel[k] ELSE 0)]
       /\ UNCHANGED <<permCache, permExpired, permUser, permCmd, permExists>>
       /\ PermOthers
    \/ /\ permPc[k] = "fetch"
       /\ permFetches' = [permFetches EXCEPT ![k] = @ + 1]
       /\ \/ UNCHANGED <<permCache, permExpired>>
          \/ \E known \in SUBSET Users :
                \E levels \in [known -> Levels] :
                   /\ permCache' = levels
                   /\ permExpired' = FALSE
       /\ permPc' = [permPc EXCEPT ![k] = "reread"]
       /\ UNCHANGED <<permUser, permCmd, permLevel, permExists, permAllowed,
                      permFailed>>
       /\ PermOthers
    \/ /\ permPc[k] = "reread"
       /\ permLevel' = [permLevel EXCEPT ![k] = CacheLevel(permUser[k])]
       /\ permAllowed' =
             [permAllowed EXCEPT ![k] = IsAdmin(CacheLevel(permUser[k]))]
       /\ permPc' = [permPc EXCEPT ![k] = "done"]
       /\ UNCHANGED <<permCache, permExpired, permUser, permCmd, permExists,
                      permFetches, permFailed>>
       /\ PermOthers

\* the command events, handled concurrently, and the passing of time
NextPermission ==
    \/ CacheExpires
    \/ \E k \in PermCalls : CanExecute(k)
    \/ \E k \in PermCalls : GetPermissionLevel(k)

SpecPermission == InitShutdown /\ [][NextPermission]_vars

(* ----------------------------------------------------- minecraft.MCPingConn *)

\* what a connection delivers: the bytes pre, then fill bytes of 0, then
\* nothing until the deadline
StreamLen(s) == Len(s.pre) + s.fill
ByteAt(s, i) == IF i <= Len(s.pre) THEN s.pre[i] ELSE 0

\* int32(g) << 28 for a group g of 7 bits: the lower 4 bits of g become
\* bits 28 to 31, the highest of which is the sign; the upper 3 are lost
ShiftLeft28(g) ==
    LET top == g % 16
    IN (IF top >= 8 THEN top - 16 ELSE top) * 2^28

\* readVarInt from position pos of s, line 413-427: result |= int32(b&0x7F)
\* << shift in 32 bits; r.Read fails at the end of s
RECURSIVE readVarIntFrom(_, _, _, _)
readVarIntFrom(s, pos, shift, result) ==
    IF pos > StreamLen(s)
    THEN [err |-> TRUE, value |-> 0, next |-> pos]
    ELSE LET b == ByteAt(s, pos)
             r == result + IF shift < 28 THEN (b % 128) * 2^shift
                                         ELSE ShiftLeft28(b % 128)
         IN IF b < 128
            THEN [err |-> FALSE, value |-> r, next |-> pos + 1]
            ELSE IF shift + 7 >= 32
                 THEN [err |-> TRUE, value |-> 0, next |-> pos + 1]
                 ELSE readVarIntFrom(s, pos + 1, shift + 7, r)

readVarInt(s, pos) == readVarIntFrom(s, pos, 0, 0)

\* the length bytes of s from position from
Slice(s, from, length) ==
    LET to == Min(Len(s.pre), from + length - 1)
        pre == IF from <= to THEN SubSeq(s.pre, from, to) ELSE <<>>
    IN [pre |-> pre, fill |-> length - Len(pre)]

\* readPacket, line 430-443
readPacket(s) ==
    LET length == readVarInt(s, 1)
    IN IF length.err
       THEN [err |-> TRUE, data |-> Slice(s, 1, 0)]
       ELSE IF length.value <= 0 \/ length.value > MaxPacketLength
            THEN [err |-> TRUE, data |-> Slice(s, 1, 0)]
            ELSE IF length.next - 1 + length.value > StreamLen(s)
                 THEN [err |-> TRUE, data |-> Slice(s, 1, 0)]
                 ELSE [err |-> FALSE,
                       data |-> Slice(s, length.next, length.value)]

\* MCPingConn, line 346-376: nil is returned (TRUE) when both writes have
\* succeeded, the reply has been read, its packet id is 0x00 and the
\* length of the JSON string is positive
MCPingConn(x) ==
    IF x.writeErr # 0 THEN FALSE
    ELSE LET packet == readPacket(x)
         IN IF packet.err THEN FALSE
            ELSE LET packetID == readVarInt(packet.data, 1)
                 IN IF packetID.err \/ packetID.value # 0 THEN FALSE
                    ELSE LET jsonLen == readVarInt(packet.data, packetID.next)
                         IN ~(jsonLen.err \/ jsonLen.value <= 0)

\* encodings of VarInts: of 0, 1, 2 and 3; of 0 in two bytes; of 1 MiB and
\* of 1 MiB + 1; of -1; five bytes with a bit beyond the 32nd, the lower 32
\* bits being 0 or 1; six bytes; a byte that announces another, and none
VarInt0 == <<0>>
VarInt1 == <<1>>
VarInt2 == <<2>>
VarInt3 == <<3>>
VarInt0Long == <<128, 0>>
VarIntMiB == <<128, 128, 64>>
VarIntMiB1 == <<129, 128, 64>>
VarIntMinus1 == <<255, 255, 255, 255, 15>>
VarIntOver0 == <<128, 128, 128, 128, 16>>
VarIntOver1 == <<129, 128, 128, 128, 16>>
VarIntSix == <<128, 128, 128, 128, 128, 0>>
VarIntOpen == <<128>>

FrameLengths ==
    {VarInt0, VarInt1, VarInt2, VarInt3, VarIntMiB, VarIntMiB1, VarIntMinus1,
     VarIntSix, VarIntOpen}
PacketIds == {<<>>, VarInt0, VarInt1, VarInt0Long, VarIntOver0, VarIntSix}
JsonLengths == {<<>>, VarInt0, VarInt1, VarIntMinus1, VarIntOver1, VarIntOpen}

\* the connections: 1 or 2 fails the first or second write; the server
\* sends a frame length, a packet id, a JSON length and 0 or 1 MiB of bytes
Connections ==
    [writeErr : {1, 2}, pre : {<<>>}, fill : {0}]
    \cup {[writeErr |-> 0, pre |-> f \o i \o j, fill |-> n] :
             f \in FrameLengths, i \in PacketIds, j \in JsonLengths,
             n \in {0, MaxPacketLength}}

\* what the steps of MCPingConn leave alone
PingOthers == LBUnchanged /\ UNCHANGED <<mgrVars, startVars, permVars, jsonVars>>

\* Backend.MCPing, line 394: MCPingConn on a connection
MCPingConnCall ==
    /\ \E x \in Connections :
          /\ pingInput' = x
          /\ pingOk' = MCPingConn(x)
    /\ pingDone' = TRUE
    /\ PingOthers

SpecPing == InitShutdown /\ [][MCPingConnCall]_vars

(* ------------------------------------------- the JSON-file history store *)

\* what the steps of the JSON-file HistoryManager leave alone
JsonOthers == LBUnchanged /\ UNCHANGED <<mgrVars, startVars, permVars, pingVars>>

\* HistoryManager.Record, lines 69-98, one critical section of hm.mu: a
\* sample more for addr (every Record increments Samples, so the counts
\* tell the contents of two snapshots apart), and dirty is set
JsonRecord(addr) ==
    /\ jsonBackends[addr] < MaxJsonRecords
    /\ jsonBackends' = [jsonBackends EXCEPT ![addr] = @ + 1]
    /\ jsonDirty' = TRUE
    /\ UNCHANGED <<jsonFile, savePc, saveData, saveStop>>
    /\ JsonOthers

\* what no step of Save changes
SaveFrame == JsonOthers /\ UNCHANGED <<jsonBackends, saveStop>>

\* HistoryManager.Save, lines 164-191, called by the auto-save goroutine;
\* the goroutine returns after the Save that follows the close of stopCh
Save ==
    \* lines 165-169: not dirty, nothing to write
    \/ /\ savePc \in {"idle", "last"}
       /\ ~jsonDirty
       /\ savePc' = IF savePc = "last" THEN "returned" ELSE "idle"
       /\ UNCHANGED <<jsonDirty, jsonFile, saveData>>
       /\ SaveFrame
    \* lines 165-171: hm.backends is marshalled under the read lock
    \/ /\ savePc \in {"idle", "last"}
       /\ jsonDirty
       /\ saveData' = jsonBackends
       /\ savePc' = IF savePc = "last" THEN "last-write" ELSE "write"
       /\ UNCHANGED <<jsonDirty, jsonFile>>
       /\ SaveFrame
    \* lines 173-184: MarshalIndent, MkdirAll or WriteFile fails
    \/ /\ savePc \in {"write", "last-write"}
       /\ savePc' = IF savePc = "last-write" THEN "returned" ELSE "idle"
       /\ UNCHANGED <<jsonDirty, jsonFile, saveData>>
       /\ SaveFrame
    \* line 182: the file is written, without the lock
    \/ /\ savePc \in {"write", "last-write"}
       /\ jsonFile' = saveData
       /\ savePc' = IF savePc = "last-write" THEN "last-clear" ELSE "clear"
       /\ UNCHANGED <<jsonDirty, saveData>>
       /\ SaveFrame
    \* lines 186-190: dirty is cleared under the write lock
    \/ /\ savePc \in {"clear", "last-clear"}
       /\ jsonDirty' = FALSE
       /\ savePc' = IF savePc = "last-clear" THEN "returned" ELSE "idle"
       /\ UNCHANGED <<jsonFile, saveData>>
       /\ SaveFrame

\* StartAutoSave, lines 231-233, and LoadBalancer.Shutdown closing stopCh:
\* the goroutine, waiting in its select, takes the stopCh case
SaveOnShutdown ==
    /\ savePc = "idle"
    /\ ~saveStop
    /\ saveStop' = TRUE
    /\ savePc' = "last"
    /\ UNCHANGED <<jsonBackends, jsonDirty, jsonFile, saveData>>
    /\ JsonOthers

NextJson ==
    \/ \E addr \in JsonAddrs : JsonRecord(addr)
    \/ Save
    \/ SaveOnShutdown

SpecJson == InitShutdown /\ [][NextJson]_vars

(* ---------------------------------------------------------------- claims *)

\* C1: every backend with maxConnections > 0 has currentConns <=
\* maxConnections in every reachable state, whatever the interleaving of
\* Dials and Closes.
C1_ConnsWithinCap ==
    \A b \in backends :
        maxConnections[b] > 0 => currentConns[b] <= maxConnections[b]

\* a trackedConn whose first Close has returned
Closed(c) == connPc[c] = "open" /\ closeOnce[c] /\ closePc[c] = "none"

\* no Dial is running and every trackedConn returned has been closed
AllClosed ==
    \A c \in Conns : DialReady(c) \/ Closed(c)

\* C2: the first Close of every connection a Dial returned has lowered
\* currentConns by exactly 1 (also for connections sharing a player name),
\* so once every tracked connection is closed currentConns is 0.
C2_EveryCloseDecrements ==
    /\ \A c \in Conns : Closed(c) => decs[c] = 1
    /\ AllClosed => \A b \in backends : currentConns[b] = 0

\* no AddPlayer and no RemovePlayer call is between its two steps
Quiescent ==
    \A c \in Conns : connPc[c] # "add-inc" /\ closePc[c] # "rm-dec"

\* C3: in every quiescent state currentConns equals the number of names in
\* the player set.
C3_ConnsEqualsPlayers ==
    Quiescent =>
        \A b \in backends : currentConns[b] = Cardinality(players[b])

\* the health-check loop is handling a failed probe of b
HandlingFailure(b) == hcIdx = b /\ hcPc \in {"fail-check", "fail-set"}

\* C4: once UnhealthyAfterFailures consecutive probes of a backend have
\* failed and the loop has handled the last of them, the backend is
\* unhealthy, whatever Dials ran in between.
C4_UnhealthyAtThreshold ==
    \A b \in backends :
        (probeFails[b] >= UnhealthyAfterFailures /\ ~HandlingFailure(b))
            => ~healthy[b]

\* C5: a backend is marked unhealthy only when at least
\* UnhealthyAfterFailures consecutive probes have failed since its last
\* successful probe, whatever Dials ran in between.
C5_NotUnhealthyBelowThreshold ==
    [][\A b \in backends :
          (healthy[b] /\ ~healthy'[b])
              => probeFails[b] >= UnhealthyAfterFailures]_vars

C7_FlipsAtThresholds ==
    [][\A b \in backends :
          /\ (healthy[b] /\ ~healthy'[b])
                => failCount[b] >= UnhealthyAfterFailures
          /\ (~healthy[b] /\ healthy'[b])
                => successCount[b] >= HealthyAfterSuccesses]_vars

TrustValues == {50, 60, 70, 80, 90, 100}

\* C8: trust starts at 100 and is always one of 50, 60, ..., 100; it changes
\* only by the IncreaseTrust of a successful probe of a healthy backend
\* (+10, saturating at 100) and by the ResetTrust of a recovery (50).
C8_TrustSteps ==
    /\ \A b \in Backends : trustCoeff[b] = 100
    /\ [](\A b \in Backends : trustCoeff[b] \in TrustValues)
    /\ [][\A b \in Backends :
            trustCoeff'[b] # trustCoeff[b]
                => /\ hcIdx = b
                   /\ \/ /\ hcPc = "ok-trust"
                         /\ healthy[b]
                         /\ trustCoeff'[b] = trustCoeff[b] + 10
                      \/ /\ hcPc = "ok-resettrust"
                         /\ trustCoeff'[b] = 50]_vars
    /\ [][(hcPc = "ok-trust" /\ hcPc' # "ok-trust")
            => trustCoeff'[hcIdx] = Min(trustCoeff[hcIdx] + 10, 100)]_vars

C8_Witness ==
    \E b \in backends : trustCoeff[b] = 90 /\ hcPc = "idle"

C10_AttachDetachDetach ==
    /\ [](seqPc = "done" => currentConns[1] = seqBefore)
    /\ [][(seqPc \in {"attached", "detached"} /\ seqName \notin players[1])
            => UNCHANGED <<currentConns, players>>]_vars

C10_Witness ==
    /\ seqPc = "done"
    /\ seqBefore > 0
    /\ players[1] # {}

\* C11: under every interleaving of the AddPlayer and RemovePlayer steps of
\* Dials and Closes, connections sharing a player name included, every
\* backend's currentConns is >= 0.
C11_ConnsNonNegative ==
    \A b \in backends : currentConns[b] >= 0

\* a Close has lowered currentConns to 0 while the AddPlayer of another
\* connection of the same player name is between its two steps
C11_Witness ==
    \E c, d \in Conns :
        /\ c # d
        /\ connBackend[c] = connBackend[d]
        /\ connName[c] = connName[d]
        /\ Closed(c) /\ decs[c] = 1
        /\ connPc[d] = "add-inc"
        /\ currentConns[connBackend[c]] = 0

\* the availability predicate fails for every backend of the pool
AllUnavailable ==
    \A b \in backends :
        \/ ~healthy[b]
        \/ disabled[b]
        \/ (maxConnections[b] > 0 /\ currentConns[b] >= maxConnections[b])

\* C12: when every backend of the pool is unhealthy, disabled or saturated,
\* or the pool has no backends, a Dial under any strategy ends with
\* no-backend-available, starts no connect, and leaves currentConns, player
\* set, streaks and latency window of every backend unchanged.
C12_NoBackendAvailable ==
    [][AllUnavailable =>
          /\ \A c \in Conns :
                (DialReady(c) /\ connPc'[c] # connPc[c])
                    => connPc'[c] = "no-backend"
          /\ UNCHANGED <<currentConns, players, failCount, successCount,
                         latencyWindow>>]_vars

C12_Witness ==
    \E c \in Conns :
        /\ connPc[c] = "no-backend"
        /\ strategy = "health-score"
        /\ backends = Backends
        /\ \E b \in backends : ~healthy[b]
        /\ \E b \in backends :
              /\ healthy[b] /\ ~disabled[b]
              /\ maxConnections[b] > 0
              /\ currentConns[b] >= maxConnections[b]

\* the step leaves every field of backend o as it is
BackendUnchanged(o) ==
    /\ currentConns'[o] = currentConns[o]
    /\ players'[o] = players[o]
    /\ failCount'[o] = failCount[o]
    /\ successCount'[o] = successCount[o]
    /\ healthy'[o] = healthy[o]
    /\ disabled'[o] = disabled[o]
    /\ trustCoeff'[o] = trustCoeff[o]
    /\ latencyWindow'[o] = latencyWindow[o]
    /\ lastCheckTime'[o] = lastCheckTime[o]

\* the step appends exactly one sample to the window of b (the oldest
\* sample leaves a full window)
OneSampleAppended(b) ==
    LET w == latencyWindow[b]
        kept == IF Len(w) < windowSize THEN w ELSE Tail(w)
    IN /\ Len(latencyWindow'[b]) = Len(kept) + 1
       /\ SubSeq(latencyWindow'[b], 1, Len(kept)) = kept

\* slot c moves from position from to position to
Moves(c, from, to) == connPc[c] = from /\ connPc'[c] = to

\* C13: when the connect of a Dial fails, the selected backend's failCount
\* grows by exactly 1 and exactly one latency sample is appended to its
\* window, its currentConns and player set do not change, the Dial ends
\* with the error of that backend and attempts no other backend.
C13_DialFailure ==
    [][\A c \in Conns :
          LET b == connBackend[c]
          IN /\ Moves(c, "connect", "fail-latency")
                  => /\ failCount'[b] = failCount[b] + 1
                     /\ latencyWindow'[b] = latencyWindow[b]
             /\ Moves(c, "fail-latency", "dial-failed")
                  => /\ failCount'[b] = failCount[b]
                     /\ OneSampleAppended(b)
             /\ connPc[c] \in {"connect", "fail-latency"}
                  => connBackend'[c] = b
             /\ connPc[c] = "fail-latency"
                  => connPc'[c] \in {"fail-latency", "dial-failed"}
             /\ (Moves(c, "connect", "fail-latency")
                 \/ Moves(c, "fail-latency", "dial-failed"))
                  => /\ currentConns'[b] = currentConns[b]
                     /\ players'[b] = players[b]
                     /\ \A o \in Backends \ {b} : BackendUnchanged(o)]_vars

\* a Dial has failed on a backend that holds the player of another
\* connection
C13_Witness ==
    \E c \in Conns :
        /\ connPc[c] = "dial-failed"
        /\ failCount[connBackend[c]] >= 1
        /\ Len(latencyWindow[connBackend[c]]) >= 1
        /\ currentConns[connBackend[c]] >= 1
        /\ players[connBackend[c]] # {}

\* C14: when the connect of a Dial succeeds, failCount of the selected
\* backend is set to 0, exactly one latency sample is appended to its
\* window, currentConns grows by 1 and, when Dial returns, the player's name
\* is in the player set; every other backend is left unchanged.
C14_DialSuccess ==
    [][\A c \in Conns :
          LET b == connBackend[c]
          IN /\ Moves(c, "connect", "ok-latency") => failCount'[b] = 0
             /\ Moves(c, "ok-latency", "add-lock") => OneSampleAppended(b)
             /\ Moves(c, "add-lock", "add-inc") => connName[c] \in players'[b]
             /\ Moves(c, "add-inc", "open")
                  => /\ currentConns'[b] = currentConns[b] + 1
                     /\ connName[c] \in players'[b]
             /\ (\/ Moves(c, "connect", "ok-latency")
                 \/ Moves(c, "ok-latency", "add-lock")
                 \/ Moves(c, "add-lock", "add-inc")
                 \/ Moves(c, "add-inc", "open"))
                  => \A o \in Backends \ {b} : BackendUnchanged(o)]_vars

\* the availability predicate, as the specification words it
Available(b) ==
    /\ healthy[b]
    /\ ~disabled[b]
    /\ (maxConnections[b] = 0 \/ currentConns[b] < maxConnections[b])

\* the available backends of the pool
AvailableSet == {b \in backends : Available(b)}

\* the Select of slot c returns a backend in this step
Selects(c) == connPc[c] \in {"idle", "no-backend", "dial-failed", "rr-add"}
              /\ connPc'[c] = "connect"

\* C15: under each strategy, Select returns none or a backend of the pool
\* for which healthy, not disabled and not saturated held when Select ran.
C15_SelectsAvailable ==
    [][\A c \in Conns :
          Selects(c) => /\ connBackend'[c] \in backends
                        /\ Available(connBackend'[c])]_vars

\* the sequential strategy has passed over the saturated first backend
C15_Witness ==
    \E c \in Conns :
        /\ connPc[c] = "connect"
        /\ strategy = "sequential"
        /\ connBackend[c] = 2
        /\ healthy[1] /\ ~disabled[1]
        /\ maxConnections[1] > 0 /\ currentConns[1] >= maxConnections[1]

\* slots whose round-robin Select obtained a counter value in lo..hi
Obtained(lo, hi) ==
    {c \in Conns : connPc[c] = "connect" /\ connCounter[c] \in lo..hi}

\* C16: a round-robin Select raises the counter by one in a single step and
\* returns available[c mod n] for the value c it obtained; no two Selects
\* obtain the same value, and with an unchanging available set any n
\* Selects of consecutive counter values return each available backend
\* once.
C16_RoundRobin ==
    /\ [][\A c \in Conns :
            Moves(c, "rr-add", "connect")
                => /\ counter' = counter + 1
                   /\ connCounter'[c] = counter'
                   /\ AvailableSet # {}
                   /\ connBackend'[c] \in AvailableSet
                   /\ Cardinality({o \in AvailableSet :
                                      o < connBackend'[c]})
                          = counter' % Cardinality(AvailableSet)]_vars
    /\ [](strategy = "round-robin" =>
            \A c, d \in Conns :
                (c # d /\ connPc[c] = "connect" /\ connPc[d] = "connect")
                    => connCounter[c] # connCounter[d])
    /\ [](strategy = "round-robin" =>
            \A lo \in 1..(MaxInitCounter + NumConns) :
                LET n == Cardinality(AvailableSet)
                    S == Obtained(lo, lo + n - 1)
                IN (n >= 1 /\ Cardinality(S) = n)
                      => /\ {connBackend[c] : c \in S} = AvailableSet
                         /\ \A c, d \in S :
                               c # d => connBackend[c] # connBackend[d])

\* two concurrent round-robin Selects over two available backends
C16_Witness ==
    /\ strategy = "round-robin"
    /\ Cardinality(AvailableSet) = 2
    /\ connPc[1] = "connect" /\ connPc[2] = "connect"
    /\ connCounter[1] = connCounter[2] + 1
    /\ connBackend[1] # connBackend[2]

\* C17: least-connections returns an available backend of minimal
\* currentConns, and of several such backends the first in declaration
\* order.
C17_LeastConnections ==
    [][\A c \in Conns :
          (Selects(c) /\ strategy = "least-connections")
              => LET b == connBackend'[c]
                 IN /\ b \in AvailableSet
                    /\ \A o \in AvailableSet :
                          /\ currentConns[b] <= currentConns[o]
                          /\ currentConns[o] = currentConns[b] => b <= o]_vars

\* a tie between two loaded backends went to the first
C17_Witness ==
    \E c \in Conns :
        /\ connPc[c] = "connect"
        /\ strategy = "least-connections"
        /\ AvailableSet = Backends
        /\ currentConns[1] = 1 /\ currentConns[2] = 1
        /\ connBackend[c] = 1

\* backends a and o are equal in jitter, utilization, failure streak, trend
\* and trust
EqualButLatency(a, o) ==
    /\ Jitter(latencyWindow[a]) = Jitter(latencyWindow[o])
    /\ (maxConnections[a] = 0) = (maxConnections[o] = 0)
    /\ currentConns[a] * maxConnections[o]
          = currentConns[o] * maxConnections[a]
    /\ failCount[a] = failCount[o]
    /\ Trend(latencyWindow[a]) = Trend(latencyWindow[o])
    /\ trustCoeff[a] = trustCoeff[o]

\* C18: when the available backends have no historical data, a measured
\* average latency above 0, and are equal in jitter, utilization, failure
\* streak, trend and trust, health-score selects one of minimal average
\* latency.
C18_MinLatencySelected ==
    [][(/\ Selects(1)
        /\ strategy = "health-score"
        /\ \A a \in AvailableSet :
              /\ history[a] = NoHistory
              /\ AvgLatency(latencyWindow[a]) > 0
              /\ \A o \in AvailableSet : EqualButLatency(a, o))
          => \A o \in AvailableSet :
                AvgLatency(latencyWindow[connBackend'[1]])
                    <= AvgLatency(latencyWindow[o])]_vars

\* C19: the Select of every strategy leaves the state of every backend and
\* the history store as they are; it changes at most the round-robin
\* counter.
C19_SelectFrame ==
    [][\A c \in Conns :
          (/\ connPc[c] \in {"idle", "no-backend", "dial-failed", "rr-add"}
           /\ connPc'[c] \in {"rr-add", "no-backend", "connect"}
           /\ connPc'[c] # connPc[c])
              => /\ UNCHANGED <<backendVars, history>>
                 /\ counter' # counter => strategy = "round-robin"]_vars

\* a health-score Select has read windows, load and statistics of two
\* backends
C19_Witness ==
    \E c \in Conns :
        /\ connPc[c] = "connect"
        /\ strategy = "health-score"
        /\ AvailableSet = Backends
        /\ \A b \in Backends : history[b] = SlowHistory
        /\ currentConns[1] = 1
        /\ latencyWindow[2] # <<>>

\* C20: after k recordings into a window of capacity W >= 1 the window
\* holds the last min(k, W) samples recorded, in the order recorded.
C20_WindowHoldsLatest ==
    LET k == Len(recorded[1])
        m == Min(k, windowSize)
    IN /\ Len(latencyWindow[1]) = m
       /\ m <= windowSize
       /\ latencyWindow[1] = SubSeq(recorded[1], k - m + 1, k)

\* a full window of two or more samples has lost its oldest samples
C20_Witness ==
    /\ windowSize >= 2
    /\ Len(recorded[1]) >= windowSize + 2
    /\ latencyWindow[1][1] # latencyWindow[1][2]
    /\ recorded[1][1] # latencyWindow[1][1]

\* avg is the arithmetic mean of the samples of w, rounded down to 1/Scale
IsMean(w, avg) ==
    /\ Len(w) * avg <= Scale * SumTo(w, Len(w))
    /\ Scale * SumTo(w, Len(w)) < Len(w) * (avg + 1)

\* C21 as stated: AvgLatency and Jitter are both 0 for a window of fewer
\* than 2 samples, and AvgLatency is the arithmetic mean of a window of 2
\* or more samples.
C21_ZeroBelowTwoSamples ==
    \A b \in backends :
        LET w == latencyWindow[b]
        IN /\ Len(w) < 2 => (AvgLatency(w) = 0 /\ Jitter(w) = 0)
           /\ Len(w) >= 2 => IsMean(w, AvgLatency(w))

\* C21 amended: Jitter is 0 for a window of fewer than 2 samples;
\* AvgLatency is 0 for the empty window and the arithmetic mean of the
\* window from 1 sample on.
C21_AvgOfWindow ==
    \A b \in backends :
        LET w == latencyWindow[b]
        IN /\ Len(w) < 2 => Jitter(w) = 0
           /\ Len(w) = 0 => AvgLatency(w) = 0
           /\ Len(w) >= 1 => IsMean(w, AvgLatency(w))

\* a window of one sample above 0: its average is that sample
C21_Witness ==
    /\ Len(latencyWindow[1]) = 1
    /\ latencyWindow[1][1] = MeasuredLatency
    /\ AvgLatency(latencyWindow[1]) = MeasuredLatency * Scale
    /\ Jitter(latencyWindow[1]) = 0

\* C28: the sample a successful probe records into the backend's window
\* and into the history store is the duration of that probe.
C28_ProbeLatencyRecorded ==
    [][/\ (hcPc = "ping" /\ hcPc' = "ok-history")
            => LET w == latencyWindow'[hcIdx]
               IN Len(w) >= 1 /\ w[Len(w)] = MeasuredLatency
       /\ (hcPc = "ok-history" /\ hcPc' = "ok-count")
            => history'[hcIdx].AvgLatency
                  = IF history[hcIdx].Samples = 0
                    THEN MeasuredLatency * Scale
                    ELSE (MeasuredLatency * Scale
                          + 9 * history[hcIdx].AvgLatency) \div 10]_vars

\* the PeriodStats of address a for period p in the given cache (an address
\* without BackendHistory has had no sample)
StatsIn(c, a, p) == IF DOMAIN c[a] = {} THEN NoHistory ELSE c[a][p]

\* C22: Record(addr, L, J) changes only the PeriodStats of (addr, p), with
\* p = hour*4 + minute/15 of the local time: first sample taken as it is,
\* later ones as 0.1*L + 0.9*avg; samples rises by exactly 1 and never
\* falls; every other entry is unchanged.
C22_RecordUpdatesOnePeriod ==
    /\ [][cache' # cache
            => \E a \in Backends :
                  LET p == now[1] * 4 + now[2] \div 15
                      old == StatsIn(cache, a, p)
                      new == StatsIn(cache', a, p)
                      L == recorded'[a][Len(recorded'[a])][1]
                      J == recorded'[a][Len(recorded'[a])][2]
                  IN /\ Len(recorded'[a]) = Len(recorded[a]) + 1
                     /\ new.Samples = old.Samples + 1
                     /\ old.Samples = 0
                           => (new.AvgLatency = L /\ new.AvgJitter = J)
                     /\ old.Samples > 0
                           => /\ new.AvgLatency
                                    = (L + 9 * old.AvgLatency) \div 10
                              /\ new.AvgJitter
                                    = (J + 9 * old.AvgJitter) \div 10
                     /\ \A o \in Backends, q \in Periods :
                           (o # a \/ q # p)
                               => StatsIn(cache', o, q)
                                     = StatsIn(cache, o, q)]_vars
    /\ [][\A a \in Backends, p \in Periods :
             StatsIn(cache', a, p).Samples >= StatsIn(cache, a, p).Samples]_vars

\* a sample of 25 ms recorded at 09:15 has entered the moving average of
\* period 37, and another address has its first sample in the same period
C22_Witness ==
    /\ now = <<9, 15>>
    /\ StatsIn(cache, 1, 37).Samples = minSamplesForUse
    /\ StatsIn(cache, 1, 37).AvgLatency = (25 * Scale + 9 * 50 * Scale) \div 10
    /\ StatsIn(cache, 2, 37) =
          [Samples |-> 1, AvgLatency |-> 80 * Scale, AvgJitter |-> 20 * Scale]

\* a HistoricalScore call returns
ScoreReturns == histScore = <<>> /\ histScore' # <<>>

\* C23: HistoricalScore returns an integer in -12..12, and 0 whenever the
\* address has no history entry or the current period has fewer than 20
\* samples; from 20 samples on it can return a non-zero adjustment.
C23_ScoreRange ==
    [][ScoreReturns
          => LET h == histScore'
                 p == now[1] * 4 + now[2] \div 15
             IN /\ h.score \in (0 - 12)..12
                /\ (DOMAIN cache[h.addr] = {}
                    \/ StatsIn(cache, h.addr, p).Samples < 20)
                      => h.score = 0]_vars

\* the adjustment -12 for an address with exactly 20 samples
C23_Witness ==
    /\ histScore # <<>>
    /\ histScore.score = 0 - 12
    /\ StatsIn(cache, histScore.addr, histScore.period).Samples = 20

\* the call is for statistics of 50 samples with avgLatency 50 and no jitter
SeededCall(h) ==
    /\ StatsIn(cache, h.addr, h.period).Samples = 50
    /\ StatsIn(cache, h.addr, h.period).AvgLatency = 50 * Scale
    /\ StatsIn(cache, h.addr, h.period).AvgJitter = 0

\* C24 as stated: with samples = 50 and avgLatency = 50, a current latency
\* of 25 gives +8 and a current latency of 80 gives -4.
C24_SeededAdjustment ==
    [][(ScoreReturns /\ SeededCall(histScore'))
          => /\ histScore'.latency = 25 * Scale => histScore'.score = 8
             /\ histScore'.latency = 80 * Scale
                   => histScore'.score = 0 - 4]_vars

\* C24 amended: a current latency of 25 gives +8 and a current latency of
\* 80 (ratio 1.6, above 1.5) gives -8.
C24_SeededAdjustmentOfBands ==
    [][(ScoreReturns /\ SeededCall(histScore'))
          => /\ histScore'.latency = 25 * Scale => histScore'.score = 8
             /\ histScore'.latency = 80 * Scale
                   => histScore'.score = 0 - 8]_vars

\* the call with a current latency of 80 has returned -8
C24_Witness ==
    /\ histScore # <<>>
    /\ SeededCall(histScore)
    /\ histScore.latency = 80 * Scale
    /\ histScore.score = 0 - 8

\* Shutdown has returned, the database is closed and no savePeriodStats
\* goroutine is left
ShutdownCompleted ==
    /\ shutdownPc = "done"
    /\ dbClosed
    /\ \A i \in DOMAIN saves : saves[i].pc \in {"done", "failed"}

\* C25: after an orderly Shutdown has completed, table period_stats holds
\* for every (addr, period) the avgLatency, avgJitter and samples of the
\* cache (an entry without samples needs no row).
C25_StoreHoldsCache ==
    ShutdownCompleted
        => \A a \in Backends, p \in Periods :
              StatsIn(cache, a, p) =
                  IF <<a, p>> \in DOMAIN db THEN db[<<a, p>>] ELSE NoHistory

\* C26: a panic of the health-check loop's body is captured and a new loop
\* is started, so a later tick is processed unless Shutdown has been called;
\* at no time are two goroutines inside the loop
C26_PanicRestartsOneLoop ==
    /\ [](hcLoops <= 1)
    /\ [](hcPc \in {"panicked", "starting", "stopped"} <=> hcLoops = 0)
    /\ (hcPc = "panicked") ~> (hcPc = "probe" \/ shutdownPc # "none")

\* a tick being processed by the loop started after a captured panic, with
\* no Shutdown called
C26_Witness ==
    /\ hcRecovered
    /\ hcPc = "probe"
    /\ hcLoops = 1
    /\ shutdownPc = "none"

\* C30: with window size 0, recording a latency sample from a Dial or from
\* a successful probe completes without error and leaves the window empty
C30_ZeroWindowRecords ==
    /\ hcPc # "panicked"
    /\ \A c \in Conns : connPc[c] # "panicked"
    /\ windowSize = 0 => \A b \in backends : latencyWindow[b] = <<>>

\* a step of DisableBackend or EnableBackend
AdminStep == adminPc' # adminPc

\* what C27 says of every admin command: only the disabled flag of the
\* named backend may change, and a command on an address outside the pool
\* returns false and changes nothing
AdminFrame ==
    /\ UNCHANGED <<currentConns, players, healthy, trustCoeff, failCount,
                   successCount, latencyWindow, lastCheckTime, connVars,
                   closeVars, poolVars, storeVars>>
    /\ \A b \in Backends \ {adminTarget'} : disabled'[b] = disabled[b]
    /\ adminResult' = (adminTarget' \in backends)
    /\ adminTarget' \notin backends => disabled' = disabled

\* C27 as stated: the frame of DisableBackend and EnableBackend, and
\* Disable followed by Enable on a healthy backend restores the
\* availability it had before.
C27_DisableEnableRestores ==
    [][AdminStep
          => /\ AdminFrame
             /\ (/\ adminPc' = "enabled"
                 /\ adminTarget \in backends
                 /\ healthy[adminTarget])
                   => (IsAvailable(adminTarget))' = adminBefore.available]_vars

\* C27 amended: the round trip restores the availability of a healthy
\* backend that was not disabled before.
C27_DisableEnableRestoresEnabled ==
    [][AdminStep
          => /\ AdminFrame
             /\ (/\ adminPc' = "enabled"
                 /\ adminTarget \in backends
                 /\ healthy[adminTarget]
                 /\ ~adminBefore.disabled)
                   => (IsAvailable(adminTarget))' = adminBefore.available]_vars

\* Disable; Enable has run on a healthy, enabled and available backend of
\* a pool of two that has a player attached, and it is available again
C27_Witness ==
    /\ adminPc = "enabled"
    /\ backends = {1, 2}
    /\ adminTarget = 2
    /\ healthy[2] /\ ~adminBefore.disabled /\ adminBefore.available
    /\ IsAvailable(2)
    /\ disabled[1]
    /\ currentConns[2] > 0
    /\ adminResult

\* C29: the BackendStats a Stats() call returns has the currentConns,
\* failure streak, healthy flag, disabled flag and player set of one single
\* state the backend was in during the call.
C29_StatsIsSnapshot ==
    statsPc = NumStatsFields + 1
       => [CurrentConns |-> statsResult[1], FailCount |-> statsResult[4],
           Healthy |-> statsResult[5], Disabled |-> statsResult[6],
           Players |-> statsResult[7]] \in statsSeen

\* C36: the score /lb status shows for a backend is the score the
\* health-score strategy computes for it (relative subtotal times trust,
\* clamped, plus the history adjustment).
C36_ShownIsStrategyScore ==
    [][shown' # shown => shown'.score = StrategyScore(shown'.addr)]_vars

\* C39: health-score Select returns a backend whenever a backend is
\* available from the start to the end of the call.
C39_SelectReturnsBackend ==
    [][\A c \in Conns :
          (/\ connPc[c] = "hs-score"
           /\ connPc'[c] # "hs-score"
           /\ \E b \in connAvail[c] : IsAvailable(b) /\ IsAvailable(b)')
             => connPc'[c] = "connect"]_vars

\* C40: while the ticks are processed and Shutdown is not called, an
\* unhealthy backend that is not disabled and whose probes all succeed from
\* some point on becomes healthy, and its trust then reaches 1.00
C40_RecoversAndTrusts ==
    (/\ <>[][~HCProbeFail]_vars
     /\ [](shutdownPc = "none")
     /\ [](\A b \in backends : ~disabled[b]))
        => \A b \in 1..NumHealthBackends :
              ~healthy[b] ~> (healthy[b] /\ trustCoeff[b] = 100)

\* the same of the pools whose window size is not 0, where RecordLatency
\* does not panic
C40_RecoversWithWindow ==
    (/\ <>[][~HCProbeFail]_vars
     /\ [](shutdownPc = "none")
     /\ [](\A b \in backends : ~disabled[b])
     /\ windowSize > 0)
        => \A b \in 1..NumHealthBackends :
              ~healthy[b] ~> (healthy[b] /\ trustCoeff[b] = 100)

\* a step of the health-check loop
HCMoves == hcPc' # hcPc \/ hcIdx' # hcIdx

\* the fields of backend b that C34 names are left unchanged
HCFieldsUnchanged(b) ==
    /\ healthy'[b] = healthy[b]
    /\ failCount'[b] = failCount[b]
    /\ successCount'[b] = successCount[b]
    /\ trustCoeff'[b] = trustCoeff[b]
    /\ lastCheckTime'[b] = lastCheckTime[b]

\* C34 as stated: when a tick without panic ends, every backend that is not
\* disabled has been probed exactly once and no disabled backend has been
\* probed, and no step of the loop changes the healthy flag, the streaks,
\* the trust or lastCheck of a disabled backend
C34_TickProbesEnabled ==
    [][/\ (hcPc # "idle" /\ hcPc' = "idle")
            => \A b \in backends :
                  pings'[b] = IF disabled'[b] THEN 0 ELSE 1
       /\ HCMoves
            => \A b \in backends : disabled[b] => HCFieldsUnchanged(b)]_vars

\* C34, amended: in a tick without panic the loop reaches every backend
\* exactly once, one after the other; it probes the backend, once, exactly
\* when the backend is not disabled at that moment, and it leaves the
\* healthy flag, the streaks, the trust and lastCheck of a backend it has
\* found disabled unchanged
C34_TickProbesEnabledWhenReached ==
    [][/\ (hcPc # "idle" /\ hcPc' = "idle")
            => \A b \in backends : pings'[b] + skips'[b] = 1
       /\ (hcPc = "probe" /\ HCMoves)
            => /\ hcPc' = "ping" <=> ~disabled[hcIdx]
               /\ \A b \in backends :
                     pings[b] + skips[b] = IF b < hcIdx THEN 1 ELSE 0
       /\ HCMoves
            => \A b \in backends : skips[b] = 1 => HCFieldsUnchanged(b)]_vars

\* a tick has ended that probed the first backend and passed by the
\* second, which was disabled
C34_Witness ==
    /\ hcPc = "idle"
    /\ pings = [b \in Backends |-> IF b = 1 THEN 1 ELSE 0]
    /\ skips = [b \in Backends |-> IF b = 2 THEN 1 ELSE 0]
    /\ lastCheckTime[1] = ProbeTime
    /\ lastCheckTime[2] = 0

\* C31: after SetAutoShutdownEnabled(server, false) has returned and until
\* auto-shutdown is enabled again, no stop command is sent to the instance
C31_NoStopWhileDisabled ==
    [][offReturned => stops' = stops]_vars

\* the protection period that a returned SetShutdownDelay has set is
\* running
Protected == delayReturned /\ IsInProtectionPeriod

\* C32: after SetShutdownDelay(server, d) has returned and until the
\* protection period has ended or been cleared, no stop command is sent and
\* no idle-shutdown timer is pending
C32_NoStopWhileProtected ==
    /\ [][Protected => stops' = stops]_vars
    /\ [](Protected
            => \A i \in DOMAIN mgrTimers : mgrTimers[i].state # "pending")

C33_CanExecute ==
    \A k \in PermCalls :
       permPc[k] = "done" =>
          /\ IsAdminCommand(permCmd[k])
                => /\ permAllowed[k] <=> permLevel[k] > 3
                   /\ (permFailed[k] /\ ~permExists[k])
                         => permLevel[k] = 0 /\ ~permAllowed[k]
          /\ ~IsAdminCommand(permCmd[k])
                => permAllowed[k] /\ permFetches[k] = 0

\* one call has allowed an admin command to a user of level 4 after a
\* fetch, another has denied the same command to a user without a cached
\* level after its fetch failed
C33_Witness ==
    /\ permPc[1] = "done"
    /\ IsAdminCommand(permCmd[1])
    /\ permFetches[1] = 1
    /\ permLevel[1] = 4
    /\ permAllowed[1]
    /\ permPc[2] = "done"
    /\ permCmd[2] = permCmd[1]
    /\ permFailed[2]
    /\ ~permExists[2]
    /\ ~permAllowed[2]

\* the value of the VarInt at position pos of s as the protocol defines
\* it: the 7-bit groups, the lowest first, of at most five bytes; it ends
\* within 32 bits when the fifth byte sets no bit beyond the 32nd
RECURSIVE VarIntAt(_, _, _, _)
VarIntAt(s, pos, n, sum) ==
    IF pos > StreamLen(s) \/ n >= 5
    THEN [valid |-> FALSE, value |-> 0, next |-> pos]
    ELSE LET b == ByteAt(s, pos)
             fits == n < 4 \/ b % 128 < 16
             v == sum + IF n < 4 THEN (b % 128) * 2^(7 * n)
                                 ELSE ShiftLeft28(b % 128)
         IN IF b < 128
            THEN [valid |-> fits, value |-> v, next |-> pos + 1]
            ELSE VarIntAt(s, pos + 1, n + 1, v)

\* what C35 asks of a reply: a frame length in 1..1 MiB, a body that has
\* arrived, in it the packet id 0x00 and then a JSON length above 0
ValidReply(s) ==
    LET length == VarIntAt(s, 1, 0, 0)
    IN /\ length.valid
       /\ length.value \in 1..MaxPacketLength
       /\ length.next - 1 + length.value <= StreamLen(s)
       /\ LET body == Slice(s, length.next, length.value)
              packetID == VarIntAt(body, 1, 0, 0)
          IN /\ packetID.valid
             /\ packetID.value = 0
             /\ LET jsonLen == VarIntAt(body, packetID.next, 0, 0)
                IN jsonLen.valid /\ jsonLen.value > 0

\* C35: the status exchange succeeds exactly when both writes succeed and
\* the reply has a frame length in 1..1 MiB, the packet id 0x00 and a JSON
\* length above 0, each a VarInt that ends within 32 bits
C35_ExchangeSucceeds ==
    pingDone => (pingOk <=> (pingInput.writeErr = 0 /\ ValidReply(pingInput)))

\* no Save of the auto-save goroutine is between its read of hm.dirty and
\* its return
NoSaveInProgress == savePc \in {"idle", "last", "returned"}

\* C37: whenever the in-memory history holds a recorded sample that is not
\* in the file and no Save is in progress, the dirty flag is true, so that
\* the next Save writes the sample.
C37_UnsavedIsDirty ==
    (jsonBackends # jsonFile /\ NoSaveInProgress) => jsonDirty

====
